---- MODULE Spec2Model ----
(***************************************************************************)
(* Appointment conflict and lifecycle engine of the dental-clinic backend  *)
(* (citas, odontologos, notificaciones).  The relational store is the      *)
(* state; every request handler, management command and service is one     *)
(* action.  Times of day are minutes after midnight, dates are day         *)
(* numbers, the clock `now` is minutes after day 0, 00:00.                 *)
(***************************************************************************)
EXTENDS Integers, Sequences, FiniteSets, TLC

VARIABLES
    citas,          \* table cita: sequence of rows, id_cita = index
    horarios,       \* table odontologo_horario: set of rows
    bloqueos,       \* table bloqueo_dia: set of rows
    consultorios,   \* table consultorio: id_consultorio -> estado
    configuracion,  \* table configuracion: its one row (pk = 1)
    odontologos,    \* id_odontologo -> is_active of the dentist's usuario
    lotes,          \* the applies answered so far for the groups of bloqueos: <<grupo, batch_id>>
    now,            \* wall clock
    last            \* the request handled last and its response

vars ==
    <<citas, horarios, bloqueos, consultorios, configuracion, odontologos, lotes, now, last>>

-----------------------------------------------------------------------------
(* Constants of the program *)

ESTADO_PENDIENTE     == "pendiente"
ESTADO_CONFIRMADA    == "confirmada"
ESTADO_CANCELADA     == "cancelada"
ESTADO_REALIZADA     == "realizada"
ESTADO_MANTENIMIENTO == "mantenimiento"

ESTADO_CHOICES == {ESTADO_PENDIENTE, ESTADO_CONFIRMADA, ESTADO_CANCELADA,
                   ESTADO_REALIZADA, ESTADO_MANTENIMIENTO}

ROL_SUPERADMIN == 1
ROL_PACIENTE   == 2
ROL_ODONTOLOGO == 3
ROL_ADMIN_CLIN == 4

\* SQL NULL / Python None for the integer-valued nullable columns
NULL == -1

\* Configuracion: the column defaults, which is the row get_or_create(pk=1) inserts
ConfiguracionDefaults ==
    [max_citas_activas      |-> 1,
     horas_confirmar_desde  |-> 24,
     horas_confirmar_hasta  |-> 12,
     horas_autoconfirmar    |-> 24,
     max_citas_dia          |-> 1,
     cooldown_dias          |-> 3,
     max_reprogramaciones   |-> 1,
     min_horas_anticipacion |-> 2]

-----------------------------------------------------------------------------
(* Bounds of the model and the small sets requests draw their inputs from *)

MaxCitas == 2          \* rows the cita table may hold
MaxNow   == 720        \* the clock stops advancing here (minutes)
MaxBloqueos == 1       \* rows the bloqueo_dia table may hold
MaxReprogramaciones == 2  \* moves counted per row before the model stops counting

Pacientes    == {1, 2}
Odontologos  == {1, 2}
Consultorios == {1, 2}
Fechas       == {0, 1}
Horas        == {540, 570}           \* 09:00, 09:30

\* authenticated callers (usuario rows): a patient, an administrator, and a
\* dentist who also has a paciente row of his own
Usuarios ==
    {[id_usuario |-> 1, rol |-> ROL_PACIENTE,   pid |-> 1],
     [id_usuario |-> 2, rol |-> ROL_SUPERADMIN, pid |-> NULL],
     [id_usuario |-> 3, rol |-> ROL_ODONTOLOGO, pid |-> 2]}

\* paciente.id_usuario and odontologo.id_usuario
UsuarioDePaciente(p)   == IF p = 1 THEN 1 ELSE 3
UsuarioDeOdontologo(o) == IF o = 2 THEN 3 ELSE 4

-----------------------------------------------------------------------------
(* Time helpers *)

Hour(t)   == t \div 60
Minute(t) == t % 60
tToMinutes(t) == Hour(t) * 60 + Minute(t)

DateOf(dt) == dt \div 1440
TimeOf(dt) == dt % 1440
Weekday(d) == d % 7
Month_Day(d) == d % 365          \* (month, day) of a date, as the day of the year

\* datetime.combine(fecha, hora)
Combine(fecha, hora) == fecha * 1440 + hora

\* hoursUntil, in minutes: hours h compare as 60*h
minutesUntil(fecha, hora) == Combine(fecha, hora) - now

\* Python's `x or d` on integers
PyOr(x, d) == IF x = 0 THEN d ELSE x

-----------------------------------------------------------------------------
(* Configuracion.get_config and attribute access on what it returns *)

\* get_config as if it returned the row itself
get_config_fila == configuracion

\* cls.objects.get_or_create(pk=1) returns the pair (row, created); get_config
\* hands that pair on unchanged.  A pair has the items t0 and t1 and no other attribute.
get_config == [t0 |-> configuracion, t1 |-> FALSE]

hasattr(obj, name) == name \in DOMAIN obj
getattr(obj, name, default) == IF hasattr(obj, name) THEN obj[name] ELSE default

-----------------------------------------------------------------------------
(* Roles *)

userRole(u) == u.rol
isPatient(u) == userRole(u) = ROL_PACIENTE
isStafflike(u) == userRole(u) \in {ROL_SUPERADMIN, ROL_ODONTOLOGO, ROL_ADMIN_CLIN}
\* the routed appointment endpoints never start with /api/v1/citas/paciente/
isPatientMode(u) == isPatient(u)
pacienteIdFromUser(u) == u.pid

-----------------------------------------------------------------------------
(* Cita rows *)

NuevaCita(p, o, k, f, h, e) ==
    [id_paciente |-> p, id_odontologo |-> o, id_consultorio |-> k,
     fecha |-> f, hora |-> h, estado |-> e,
     reprogramaciones |-> 0,
     reprogramada_en |-> NULL, reprogramada_por_rol |-> NULL,
     cancelada_en |-> NULL, cancelada_por_rol |-> NULL, batch_id |-> NULL]

Ids(cs) == 1..Len(cs)

\* the three conditional unique constraints, and the minute check constraint
uq_cita_odo_fecha_hora_activa(cs) ==
    \A i, j \in Ids(cs) :
        (i # j /\ cs[i].estado # ESTADO_CANCELADA /\ cs[j].estado # ESTADO_CANCELADA)
        => <<cs[i].id_odontologo, cs[i].fecha, cs[i].hora>>
           # <<cs[j].id_odontologo, cs[j].fecha, cs[j].hora>>

uq_cita_consul_fecha_hora_activa(cs) ==
    \A i, j \in Ids(cs) :
        (i # j /\ cs[i].estado # ESTADO_CANCELADA /\ cs[j].estado # ESTADO_CANCELADA)
        => <<cs[i].id_consultorio, cs[i].fecha, cs[i].hora>>
           # <<cs[j].id_consultorio, cs[j].fecha, cs[j].hora>>

uq_cita_paciente_fecha_hora_activa(cs) ==
    \A i, j \in Ids(cs) :
        (i # j /\ cs[i].estado # ESTADO_CANCELADA /\ cs[j].estado # ESTADO_CANCELADA)
        => <<cs[i].id_paciente, cs[i].fecha, cs[i].hora>>
           # <<cs[j].id_paciente, cs[j].fecha, cs[j].hora>>

ck_cita_minuto_cero(cs) == \A i \in Ids(cs) : Minute(cs[i].hora) = 0

\* the name of a constraint the table cs breaks, "" when it breaks none
IntegrityError(cs) ==
    IF ~uq_cita_odo_fecha_hora_activa(cs) THEN "uq_cita_odo_fecha_hora_activa"
    ELSE IF ~uq_cita_consul_fecha_hora_activa(cs) THEN "uq_cita_consul_fecha_hora_activa"
    ELSE IF ~uq_cita_paciente_fecha_hora_activa(cs) THEN "uq_cita_paciente_fecha_hora_activa"
    ELSE IF ~ck_cita_minuto_cero(cs) THEN "ck_cita_minuto_cero"
    ELSE ""

-----------------------------------------------------------------------------
(* Cita.clean *)

\* an applicable BloqueoDia row: global or of the dentist, by date or by month and day
BloqueoAplica(b, fecha, idOdontologo) ==
    /\ (b.id_odontologo = NULL \/ b.id_odontologo = idOdontologo)
    /\ (b.fecha = fecha
        \/ (b.recurrente_anual /\ Month_Day(b.fecha) = Month_Day(fecha)))

fechaBloqueada(fecha, idOdontologo) ==
    \E b \in bloqueos : BloqueoAplica(b, fecha, idOdontologo)

fitsAny(c) ==
    \E h \in horarios :
        /\ h.id_odontologo = c.id_odontologo
        /\ h.vigente
        /\ h.dia_semana = Weekday(c.fecha)
        /\ tToMinutes(h.hora_inicio) <= tToMinutes(c.hora)
        /\ tToMinutes(c.hora) + 60 <= tToMinutes(h.hora_fin)

\* another non-cancelled row (pk excluded) with the same value of `campo`, fecha and hora
Ocupado(cs, c, pk, campo) ==
    \E j \in Ids(cs) :
        /\ j # pk
        /\ cs[j].estado # ESTADO_CANCELADA
        /\ cs[j][campo] = c[campo]
        /\ cs[j].fecha = c.fecha
        /\ cs[j].hora = c.hora

\* clean with the schedule window looked at before the room
clean_horario_primero(cs, c, pk) ==
    IF Minute(c.hora) # 0 THEN "hora:minuto"
    ELSE IF UsuarioDePaciente(c.id_paciente) = UsuarioDeOdontologo(c.id_odontologo)
         THEN "id_odontologo:contigo_mismo"
    ELSE IF ~fitsAny(c) THEN "hora:horario"
    ELSE IF ~consultorios[c.id_consultorio] THEN "id_consultorio:inactivo"
    ELSE IF fechaBloqueada(c.fecha, c.id_odontologo) THEN "fecha:bloqueada"
    ELSE IF Ocupado(cs, c, pk, "id_odontologo") THEN "hora:odontologo"
    ELSE IF Ocupado(cs, c, pk, "id_consultorio") THEN "id_consultorio:ocupado"
    ELSE IF Ocupado(cs, c, pk, "id_paciente") THEN "id_paciente:ocupado"
    ELSE IF Hour(c.hora) \in {13, 14} THEN "hora:almuerzo"
    ELSE ""

\* clean without its last check, the lunch hours
clean_sin_almuerzo(cs, c, pk) ==
    IF Minute(c.hora) # 0 THEN "hora:minuto"
    ELSE IF UsuarioDePaciente(c.id_paciente) = UsuarioDeOdontologo(c.id_odontologo)
         THEN "id_odontologo:contigo_mismo"
    ELSE IF ~consultorios[c.id_consultorio] THEN "id_consultorio:inactivo"
    ELSE IF ~fitsAny(c) THEN "hora:horario"
    ELSE IF fechaBloqueada(c.fecha, c.id_odontologo) THEN "fecha:bloqueada"
    ELSE IF Ocupado(cs, c, pk, "id_odontologo") THEN "hora:odontologo"
    ELSE IF Ocupado(cs, c, pk, "id_consultorio") THEN "id_consultorio:ocupado"
    ELSE IF Ocupado(cs, c, pk, "id_paciente") THEN "id_paciente:ocupado"
    ELSE ""

\* the key of the ValidationError clean raises for row c (primary key pk, 0 when unsaved)
\* against the table cs; "" when clean passes
clean(cs, c, pk) ==
    IF Minute(c.hora) # 0 THEN "hora:minuto"
    ELSE IF UsuarioDePaciente(c.id_paciente) = UsuarioDeOdontologo(c.id_odontologo)
         THEN "id_odontologo:contigo_mismo"
    ELSE IF ~consultorios[c.id_consultorio] THEN "id_consultorio:inactivo"
    ELSE IF ~fitsAny(c) THEN "hora:horario"
    ELSE IF fechaBloqueada(c.fecha, c.id_odontologo) THEN "fecha:bloqueada"
    ELSE IF Ocupado(cs, c, pk, "id_odontologo") THEN "hora:odontologo"
    ELSE IF Ocupado(cs, c, pk, "id_consultorio") THEN "id_consultorio:ocupado"
    ELSE IF Ocupado(cs, c, pk, "id_paciente") THEN "id_paciente:ocupado"
    ELSE IF Hour(c.hora) \in {13, 14} THEN "hora:almuerzo"
    ELSE ""

-----------------------------------------------------------------------------
(* Responses *)

\* no request is being answered
NoReq == [op |-> "", rol |-> NULL, pid |-> NULL, id |-> 0, req |-> <<>>,
          previa |-> <<>>, status |-> 0, err |-> "", estado |-> "",
          status2 |-> 0, err2 |-> "", items |-> {}, total |-> NULL, batch_id |-> NULL,
          disponibles |-> <<>>, ocupadas |-> <<>>, bloqueado |-> FALSE]

\* request `op` with inputs req by caller u on row id, the table before it being cs,
\* answered with status, err and (on success) the estado of the response body;
\* status2 and err2 are the answer to a second request handled at the same time;
\* disponibles, ocupadas and bloqueado are the body of the agenda queries
Resp(op, u, id, req, cs, status, err, estado) ==
    [op |-> op, rol |-> u.rol, pid |-> u.pid, id |-> id, req |-> req,
     previa |-> IF id \in Ids(cs) THEN <<cs[id]>> ELSE <<>>,
     status |-> status, err |-> err, estado |-> estado,
     status2 |-> 0, err2 |-> "", items |-> {}, total |-> NULL, batch_id |-> NULL,
     disponibles |-> <<>>, ocupadas |-> <<>>, bloqueado |-> FALSE]

\* the caller of what runs outside a request: the admin site, a management command
Sistema == [id_usuario |-> 0, rol |-> NULL, pid |-> NULL]

\* CitaViewSet.get_queryset: a patient sees only his own rows
Visible(u, id) ==
    /\ id \in Ids(citas)
    /\ (isPatient(u) =>
            (pacienteIdFromUser(u) # NULL
             /\ citas[id].id_paciente = pacienteIdFromUser(u)))

-----------------------------------------------------------------------------
(* Saving a row *)

\* outcome of a handler: HTTP status, error key, and the table it leaves
R(status, err, cs) == [status |-> status, err |-> err, cs |-> cs]

Put(cs, pk, c) == IF pk = 0 THEN Append(cs, c) ELSE [cs EXCEPT ![pk] = c]

\* a save that neither validates nor meets any constraint
Cita_save_sin_validar(cs, pk, c) == R(200, "", Put(cs, pk, c))

\* Cita.save for which a row in mantenimiento occupies nothing
Cita_save_mantenimiento_libre(cs, pk, c) ==
    LET libres == [j \in Ids(cs) |->
                      IF cs[j].estado = ESTADO_MANTENIMIENTO /\ j # pk
                      THEN [cs[j] EXCEPT !.estado = ESTADO_CANCELADA] ELSE cs[j]]
    IN  IF clean(libres, c, pk) # "" THEN R(500, clean(libres, c, pk), cs)
        ELSE IF IntegrityError(Put(libres, pk, c)) # ""
             THEN R(500, IntegrityError(Put(libres, pk, c)), cs)
        ELSE R(200, "", Put(cs, pk, c))

\* Cita.save: clean, then the INSERT (pk = 0) or UPDATE under the table's constraints.
\* Both failures are exceptions of the model layer (status 500 unless a caller maps them).
Cita_save(cs, pk, c) ==
    IF clean(cs, c, pk) # "" THEN R(500, clean(cs, c, pk), cs)
    ELSE IF IntegrityError(Put(cs, pk, c)) # ""
         THEN R(500, IntegrityError(Put(cs, pk, c)), cs)
    ELSE R(200, "", Put(cs, pk, c))

\* the field CitaSerializer attributes a broken unique constraint to
IntegrityField(name) ==
    IF name = "uq_cita_odo_fecha_hora_activa" THEN "hora:odontologo"
    ELSE IF name = "uq_cita_consul_fecha_hora_activa" THEN "id_consultorio:ocupado"
    ELSE IF name = "uq_cita_paciente_fecha_hora_activa" THEN "id_paciente:ocupado"
    ELSE name

\* CitaSerializer.create / CitaSerializer.update: full_clean answered as a 400 with the
\* field, save with the IntegrityError of a unique constraint answered the same way
SerializerSave(cs, pk, c, okStatus) ==
    IF clean(cs, c, pk) # "" THEN R(400, clean(cs, c, pk), cs)
    ELSE LET r == Cita_save(cs, pk, c)
         IN  IF r.status = 200 THEN R(okStatus, "", r.cs)
             ELSE IF r.err \in {"uq_cita_odo_fecha_hora_activa",
                                "uq_cita_consul_fecha_hora_activa",
                                "uq_cita_paciente_fecha_hora_activa"}
                  THEN R(400, IntegrityField(r.err), cs)
             ELSE r

\* the request leaves the table the handler produced; the server holds the response
\* until it is delivered and takes the next request after that
Responde(op, u, id, req, r, estado) ==
    /\ citas' = r.cs
    /\ last' = Resp(op, u, id, req, citas, r.status, r.err,
                    IF r.status \in {200, 201} THEN estado ELSE "")

\* the same for a bulk service: the body lists `items` (ids), their number as the total,
\* and the batch id of an apply (NULL when the body carries none)
Masivo(op, u, req, r, items, batch) ==
    /\ citas' = r.cs
    /\ last' = [Resp(op, u, 0, req, citas, r.status, r.err, "") EXCEPT
                   !.items = IF r.status \in {200, 201} THEN items ELSE {},
                   !.total = IF r.status \in {200, 201} THEN Cardinality(items) ELSE NULL,
                   !.batch_id = IF r.status \in {200, 201} THEN batch ELSE NULL]

\* the response leaves the server
Entregar ==
    /\ last # NoReq
    /\ last' = NoReq
    /\ UNCHANGED <<citas, horarios, bloqueos, consultorios, now, configuracion, odontologos, lotes>>

-----------------------------------------------------------------------------
(* The database the server starts on *)

\* rows as Cita.save leaves them when the clinic is set up: any parties, any date and
\* exact hour, any estado, nobody booked with himself
FilasIniciales ==
    {NuevaCita(p, o, k, f, h, e) :
        p \in Pacientes, o \in Odontologos, k \in Consultorios,
        f \in Fechas, h \in {x \in Horas : Minute(x) = 0}, e \in ESTADO_CHOICES}
    \ {c \in {NuevaCita(p, o, k, f, h, e) :
                p \in Pacientes, o \in Odontologos, k \in Consultorios,
                f \in Fechas, h \in Horas, e \in ESTADO_CHOICES} :
            UsuarioDePaciente(c.id_paciente) = UsuarioDeOdontologo(c.id_odontologo)}

RECURSIVE TablasDe(_)
\* the tables of exactly n rows that meet the constraints of the cita table
TablasDe(n) ==
    IF n = 0 THEN {<<>>}
    ELSE {t \in {Append(t0, c) : t0 \in TablasDe(n - 1), c \in FilasIniciales} :
            IntegrityError(t) = ""}

TablasIniciales == UNION {TablasDe(n) : n \in 0..MaxCitas}

\* every dentist works 09:00-15:00 on the weekdays of the dates in play
HorariosIniciales ==
    {[id_odontologo |-> o, dia_semana |-> Weekday(f),
      hora_inicio |-> 540, hora_fin |-> 900, vigente |-> TRUE]
     : o \in Odontologos, f \in Fechas}

\* no block, or a holiday declared on the last date after the appointments were booked
BloqueosIniciales ==
    {{}, {[grupo |-> 1, id_odontologo |-> NULL, fecha |-> 1, recurrente_anual |-> FALSE]}}

Init ==
    /\ citas \in TablasIniciales
    /\ horarios = HorariosIniciales
    /\ bloqueos \in BloqueosIniciales
    /\ consultorios = [k \in Consultorios |-> TRUE]
    /\ odontologos = [o \in Odontologos |-> TRUE]
    /\ lotes = {}
    /\ configuracion = ConfiguracionDefaults
    /\ now = 0
    /\ last = NoReq

-----------------------------------------------------------------------------
(* Model-level insert *)

\* Cita(...).save() of a new row outside the REST view (admin site, shell, fixtures)
CitaSave ==
    /\ last = NoReq
    /\ \E p \in Pacientes, o \in Odontologos, k \in Consultorios,
          f \in Fechas, h \in Horas, e \in {ESTADO_PENDIENTE, ESTADO_CONFIRMADA} :
           LET r == Cita_save(citas, 0, NuevaCita(p, o, k, f, h, e))
           IN  /\ Len(citas) < MaxCitas
               /\ Responde("save", Sistema, IF r.status = 200 THEN Len(r.cs) ELSE 0,
                           <<p, o, k, f, h>>, r, e)
               /\ UNCHANGED <<horarios, bloqueos, consultorios, now, configuracion, odontologos, lotes>>

-----------------------------------------------------------------------------
(* CitaViewSet.create / perform_create *)

Activas(cs, p) ==
    {j \in Ids(cs) : cs[j].id_paciente = p
                     /\ cs[j].estado \in {ESTADO_PENDIENTE, ESTADO_CONFIRMADA}}

\* rows of patient p on date f that are neither cancelled nor in maintenance, pk excluded
MismoDia(cs, p, f, pk) ==
    {j \in Ids(cs) : j # pk /\ cs[j].id_paciente = p /\ cs[j].fecha = f
                     /\ cs[j].estado \notin {ESTADO_CANCELADA, ESTADO_MANTENIMIENTO}}

tieneCancelRecienteMismoOdo(cs, p, o, cooldown_dias) ==
    \E j \in Ids(cs) :
        /\ cs[j].id_paciente = p
        /\ cs[j].id_odontologo = o
        /\ cs[j].estado = ESTADO_CANCELADA
        /\ cs[j].cancelada_por_rol = ROL_PACIENTE
        /\ cs[j].cancelada_en # NULL
        /\ cs[j].cancelada_en >= now - cooldown_dias * 1440

\* Estado inicial según la anticipación (< horas_autoconfirmar => confirmada)
estadoInicial(config, f, h) ==
    IF minutesUntil(f, h) < 60 * PyOr(config.horas_autoconfirmar, 24)
    THEN ESTADO_CONFIRMADA ELSE ESTADO_PENDIENTE

perform_create(u, p, o, k, f, h) ==
    LET config == get_config
        myPid  == pacienteIdFromUser(u)
        max_activas   == PyOr(getattr(config, "max_citas_activas", 1), 1)
        max_citas_dia == PyOr(getattr(config, "max_citas_dia", 1), 1)
    IN
    IF Minute(h) # 0 THEN R(400, "hora:minuto", citas)
    ELSE IF isPatientMode(u) THEN
        IF myPid = NULL THEN R(400, "detail:paciente", citas)
        ELSE IF Cardinality(Activas(citas, myPid)) >= max_activas
             THEN R(400, "detail:max_activas", citas)
        ELSE IF Cardinality(MismoDia(citas, myPid, f, 0)) >= max_citas_dia
             THEN R(400, "fecha:max_dia", citas)
        ELSE IF \E j \in Activas(citas, myPid) : citas[j].id_odontologo = o
             THEN R(400, "id_odontologo:activa", citas)
        ELSE IF ~hasattr(config, "cooldown_dias") THEN R(500, "AttributeError", citas)
        ELSE IF tieneCancelRecienteMismoOdo(citas, myPid, o, PyOr(config.cooldown_dias, 0))
             THEN R(400, "id_odontologo:cooldown", citas)
        ELSE IF ~hasattr(config, "horas_autoconfirmar") THEN R(500, "AttributeError", citas)
        ELSE SerializerSave(citas, 0,
                 NuevaCita(myPid, o, k, f, h, estadoInicial(config, f, h)), 201)
    ELSE
        IF ~hasattr(config, "horas_autoconfirmar") THEN R(500, "AttributeError", citas)
        ELSE SerializerSave(citas, 0,
                 NuevaCita(p, o, k, f, h, estadoInicial(config, f, h)), 201)

\* the estado a POST body may carry; perform_create overrides it
EstadosEnviados == {ESTADO_PENDIENTE, ESTADO_REALIZADA}

\* POST /citas/
Create ==
    /\ last = NoReq
    /\ \E u \in Usuarios, p \in Pacientes, o \in Odontologos, k \in Consultorios,
          f \in Fechas, h \in Horas, e \in EstadosEnviados :
           LET r == perform_create(u, p, o, k, f, h)
           IN  /\ Len(citas) < MaxCitas
               /\ isPatientMode(u) => p = pacienteIdFromUser(u)
               /\ Responde("create", u, IF r.status = 201 THEN Len(r.cs) ELSE 0,
                           <<p, o, k, f, h>>, r, r.cs[Len(r.cs)].estado)
               /\ UNCHANGED <<horarios, bloqueos, consultorios, now, configuracion, odontologos, lotes>>

\* two POST /citas/ for the same dentist, date and hour handled at the same time: each
\* runs perform_create and full_clean on the table as it is, then the two INSERTs follow
\* one another under the constraints of the table
CreateConcurrente ==
    /\ last = NoReq
    /\ Len(citas) + 2 <= MaxCitas
    /\ \E u1 \in Usuarios, u2 \in Usuarios, p1 \in Pacientes, p2 \in Pacientes,
          o \in Odontologos, k1 \in Consultorios, k2 \in Consultorios,
          f \in Fechas, h \in Horas :
           LET r1 == perform_create(u1, p1, o, k1, f, h)
               r2 == perform_create(u2, p2, o, k2, f, h)
               cs1 == IF r1.status = 201 THEN r1.cs ELSE citas
               t2 == Append(cs1, r2.cs[Len(r2.cs)])
               w2 == IF r2.status # 201 THEN R(r2.status, r2.err, cs1)
                     ELSE IF IntegrityError(t2) # ""
                     THEN R(400, IntegrityField(IntegrityError(t2)), cs1)
                     ELSE R(201, "", t2)
           IN  /\ isPatientMode(u1) => p1 = pacienteIdFromUser(u1)
               /\ isPatientMode(u2) => p2 = pacienteIdFromUser(u2)
               /\ citas' = w2.cs
               /\ last' = [Resp("create_concurrente", u1, 0, <<p1, o, k1, f, h, p2, k2>>,
                                citas, r1.status, r1.err, "")
                           EXCEPT !.status2 = w2.status, !.err2 = w2.err]
               /\ UNCHANGED <<horarios, bloqueos, consultorios, now, configuracion, odontologos, lotes>>

-----------------------------------------------------------------------------
(* CitaViewSet.partial_update / perform_update *)

\* PATCH bodies: a new estado, a new fecha and hora, or neither (e.g. only `motivo`)
Datos ==
    {[campos |-> {"estado"}, estado |-> e, fecha |-> 0, hora |-> 0] : e \in ESTADO_CHOICES}
    \cup {[campos |-> {"fecha", "hora"}, estado |-> "", fecha |-> f, hora |-> h]
          : f \in Fechas, h \in Horas}
    \cup {[campos |-> {}, estado |-> "", fecha |-> 0, hora |-> 0]}

\* CitaSerializer.update: setattr of every validated field on the instance
Aplicar(c, data) ==
    [c EXCEPT !.estado = IF "estado" \in data.campos THEN data.estado ELSE @,
              !.fecha  = IF "fecha" \in data.campos THEN data.fecha ELSE @,
              !.hora   = IF "hora" \in data.campos THEN data.hora ELSE @]

perform_update(u, id, data) ==
    LET config   == get_config
        instance == citas[id]
        changingDate == ("fecha" \in data.campos) \/ ("hora" \in data.campos)
        changingEstadoToCancel == "estado" \in data.campos /\ data.estado = ESTADO_CANCELADA
        myPid == pacienteIdFromUser(u)
        max_reprogramaciones == PyOr(getattr(config, "max_reprogramaciones", 1), 1)
        max_citas_dia == PyOr(getattr(config, "max_citas_dia", 1), 1)
        nuevaFecha == IF "fecha" \in data.campos THEN data.fecha ELSE instance.fecha
        reprogramada == [Aplicar(instance, data)
                            EXCEPT !.reprogramaciones = instance.reprogramaciones + 1,
                                   !.reprogramada_en = now,
                                   !.reprogramada_por_rol = userRole(u)]
    IN
    IF "hora" \in data.campos /\ Minute(data.hora) # 0 THEN R(400, "hora:minuto", citas)
    ELSE IF isPatientMode(u) THEN
        IF myPid = NULL THEN R(403, "detail:paciente", citas)
        ELSE IF instance.id_paciente # myPid THEN R(403, "detail:ajena", citas)
        ELSE IF instance.estado = ESTADO_CONFIRMADA
                /\ data.campos \cap {"fecha", "hora", "id_odontologo",
                                     "id_consultorio", "estado"} # {}
             THEN R(400, "detail:confirmada", citas)
        ELSE IF instance.estado \in {ESTADO_CANCELADA, ESTADO_MANTENIMIENTO}
                /\ data.campos \cap {"fecha", "hora", "estado"} # {}
             THEN R(400, "detail:cancelada_o_mantenimiento", citas)
        ELSE IF changingDate THEN
            IF instance.reprogramaciones >= max_reprogramaciones
            THEN R(400, "detail:max_reprogramaciones", citas)
            ELSE IF Cardinality(MismoDia(citas, myPid, nuevaFecha, id)) >= max_citas_dia
            THEN R(400, "fecha:max_dia", citas)
            ELSE SerializerSave(citas, id, reprogramada, 200)
        ELSE SerializerSave(citas, id, Aplicar(instance, data), 200)
    ELSE
        LET c1 == IF changingDate THEN reprogramada ELSE Aplicar(instance, data)
            c2 == IF changingEstadoToCancel /\ instance.estado # ESTADO_CANCELADA
                  THEN [c1 EXCEPT !.cancelada_en = now, !.cancelada_por_rol = userRole(u)]
                  ELSE c1
        IN  SerializerSave(citas, id, c2, 200)

\* PATCH /citas/{id}/
Update ==
    /\ last = NoReq
    /\ \E u \in Usuarios, id \in Ids(citas), data \in Datos :
           LET r == IF Visible(u, id) THEN perform_update(u, id, data)
                    ELSE R(404, "detail:no_encontrada", citas)
           IN  /\ ("fecha" \in data.campos /\ ~isPatientMode(u))
                      => citas[id].reprogramaciones < MaxReprogramaciones
               /\ Responde("update", u, id, <<data>>, r, r.cs[id].estado)
               /\ UNCHANGED <<horarios, bloqueos, consultorios, now, configuracion, odontologos, lotes>>

-----------------------------------------------------------------------------
(* CitaViewSet.confirmar *)

\* confirmar without its test of the current estado
confirmar_sin_estado(u, id) ==
    IF isPatientMode(u) /\ ~hasattr(get_config, "horas_confirmar_desde")
    THEN R(500, "AttributeError", citas)
    ELSE Cita_save(citas, id, [citas[id] EXCEPT !.estado = ESTADO_CONFIRMADA])

confirmar(u, id) ==
    LET config  == get_config
        citaObj == citas[id]
        mins    == minutesUntil(citaObj.fecha, citaObj.hora)
    IN
    IF citaObj.estado \in {ESTADO_CANCELADA, ESTADO_REALIZADA, ESTADO_MANTENIMIENTO}
    THEN R(400, "detail:estado", citas)
    ELSE IF isPatientMode(u) /\ ~hasattr(config, "horas_confirmar_desde")
    THEN R(500, "AttributeError", citas)
    ELSE IF isPatientMode(u)
            /\ ~(60 * PyOr(config.horas_confirmar_hasta, 12) <= mins
                 /\ mins <= 60 * PyOr(config.horas_confirmar_desde, 24))
    THEN R(400, "detail:ventana", citas)
    ELSE Cita_save(citas, id, [citaObj EXCEPT !.estado = ESTADO_CONFIRMADA])

\* PATCH /citas/{id}/confirmar/
Confirmar ==
    /\ last = NoReq
    /\ \E u \in Usuarios, id \in Ids(citas) :
           LET r == IF Visible(u, id) THEN confirmar(u, id)
                    ELSE R(404, "detail:no_encontrada", citas)
           IN  /\ Responde("confirmar", u, id, <<>>, r, r.cs[id].estado)
               /\ UNCHANGED <<horarios, bloqueos, consultorios, now, configuracion, odontologos, lotes>>

-----------------------------------------------------------------------------
(* CitaViewSet.cancelar *)

\* cancelar without its early answer for a row that is cancelled already
cancelar_otra_vez(u, id) ==
    IF citas[id].estado \in {ESTADO_REALIZADA, ESTADO_MANTENIMIENTO}
    THEN R(400, "detail:estado", citas)
    ELSE IF isPatientMode(u)
    THEN Cita_save(citas, id, [citas[id] EXCEPT !.estado = ESTADO_CANCELADA,
                                                !.cancelada_en = now,
                                                !.cancelada_por_rol = ROL_PACIENTE])
    ELSE Cita_save(citas, id, [citas[id] EXCEPT !.estado = ESTADO_CANCELADA,
                                                !.cancelada_por_rol = userRole(u)])

cancelar(u, id) ==
    LET citaObj == citas[id]
        myPid   == pacienteIdFromUser(u)
        esElPaciente == myPid # NULL /\ myPid = citaObj.id_paciente
    IN
    IF citaObj.estado \in {ESTADO_REALIZADA, ESTADO_MANTENIMIENTO}
    THEN R(400, "detail:estado", citas)
    ELSE IF citaObj.estado = ESTADO_CANCELADA THEN R(200, "", citas)
    ELSE IF esElPaciente \/ isPatientMode(u) THEN
        IF citaObj.estado = ESTADO_CONFIRMADA THEN R(400, "detail:confirmada", citas)
        ELSE Cita_save(citas, id, [citaObj EXCEPT !.estado = ESTADO_CANCELADA,
                                                  !.cancelada_en = now,
                                                  !.cancelada_por_rol = ROL_PACIENTE])
    ELSE Cita_save(citas, id, [citaObj EXCEPT !.estado = ESTADO_CANCELADA,
                                              !.cancelada_por_rol = userRole(u)])

\* PATCH /citas/{id}/cancelar/
Cancelar ==
    /\ last = NoReq
    /\ \E u \in Usuarios, id \in Ids(citas) :
           LET r == IF Visible(u, id) THEN cancelar(u, id)
                    ELSE R(404, "detail:no_encontrada", citas)
           IN  /\ Responde("cancelar", u, id, <<>>, r, r.cs[id].estado)
               /\ UNCHANGED <<horarios, bloqueos, consultorios, now, configuracion, odontologos, lotes>>

-----------------------------------------------------------------------------
(* CitaViewSet.reprogramar *)

\* the request's optional id_consultorio: 0 when the body carries none
ConsultorioParam == {0} \cup Consultorios

reprogramar(u, id, f, h, k) ==
    LET config  == get_config
        citaObj == citas[id]
        myPid   == pacienteIdFromUser(u)
        max_reprog == PyOr(getattr(config, "max_reprogramaciones", 1), 1)
        movida  == [citaObj EXCEPT
                       !.fecha = f, !.hora = h,
                       !.id_consultorio = IF k # 0 THEN k ELSE @,
                       !.reprogramaciones = IF isPatientMode(u) THEN @ + 1 ELSE @,
                       !.reprogramada_en = now,
                       !.reprogramada_por_rol = userRole(u)]
    IN
    IF citaObj.estado \in {ESTADO_REALIZADA, ESTADO_CANCELADA, ESTADO_MANTENIMIENTO}
    THEN R(400, "detail:estado", citas)
    ELSE IF isPatientMode(u) /\ (myPid = NULL \/ myPid # citaObj.id_paciente)
    THEN R(403, "detail:ajena", citas)
    ELSE IF isPatientMode(u) /\ citaObj.estado = ESTADO_CONFIRMADA
    THEN R(400, "detail:confirmada", citas)
    ELSE IF isPatientMode(u) /\ citaObj.reprogramaciones >= max_reprog
    THEN R(400, "detail:max_reprogramaciones", citas)
    ELSE IF isPatientMode(u) /\ MismoDia(citas, myPid, f, id) # {}
    THEN R(400, "fecha:max_dia", citas)
    ELSE Cita_save(citas, id, movida)

\* PATCH /citas/{id}/reprogramar/
Reprogramar ==
    /\ last = NoReq
    /\ \E u \in Usuarios, id \in Ids(citas), f \in Fechas, h \in Horas, k \in ConsultorioParam :
           LET r == IF Visible(u, id) THEN reprogramar(u, id, f, h, k)
                    ELSE R(404, "detail:no_encontrada", citas)
           IN  /\ Responde("reprogramar", u, id, <<f, h, k>>, r, r.cs[id].estado)
               /\ UNCHANGED <<horarios, bloqueos, consultorios, now, configuracion, odontologos, lotes>>

-----------------------------------------------------------------------------
(* The same writes with the hour drawn from the whole working day *)

\* 09:00, 09:30, and the two lunch hours 13:00 and 14:00, all inside the 09:00-15:00 window
HorasDelDia == {540, 570, 780, 840}

\* Cita(...).save() of a new row at any hour of the day
CitaSaveHora ==
    /\ last = NoReq
    /\ \E p \in Pacientes, o \in Odontologos, k \in Consultorios,
          f \in Fechas, h \in HorasDelDia, e \in {ESTADO_PENDIENTE, ESTADO_CONFIRMADA} :
           LET r == Cita_save(citas, 0, NuevaCita(p, o, k, f, h, e))
           IN  /\ Len(citas) < MaxCitas
               /\ Responde("save", Sistema, IF r.status = 200 THEN Len(r.cs) ELSE 0,
                           <<p, o, k, f, h>>, r, e)
               /\ UNCHANGED <<horarios, bloqueos, consultorios, now, configuracion, odontologos, lotes>>

\* PATCH /citas/{id}/ with a new fecha and hora at any hour of the day
UpdateHora ==
    /\ last = NoReq
    /\ \E u \in Usuarios, id \in Ids(citas), f \in Fechas, h \in HorasDelDia :
           LET data == [campos |-> {"fecha", "hora"}, estado |-> "", fecha |-> f, hora |-> h]
               r == IF Visible(u, id) THEN perform_update(u, id, data)
                    ELSE R(404, "detail:no_encontrada", citas)
           IN  /\ ~isPatientMode(u) => citas[id].reprogramaciones < MaxReprogramaciones
               /\ Responde("update", u, id, <<data>>, r, r.cs[id].estado)
               /\ UNCHANGED <<horarios, bloqueos, consultorios, now, configuracion, odontologos, lotes>>

\* PATCH /citas/{id}/reprogramar/ to any hour of the day
ReprogramarHora ==
    /\ last = NoReq
    /\ \E u \in Usuarios, id \in Ids(citas), f \in Fechas, h \in HorasDelDia, k \in ConsultorioParam :
           LET r == IF Visible(u, id) THEN reprogramar(u, id, f, h, k)
                    ELSE R(404, "detail:no_encontrada", citas)
           IN  /\ Responde("reprogramar", u, id, <<f, h, k>>, r, r.cs[id].estado)
               /\ UNCHANGED <<horarios, bloqueos, consultorios, now, configuracion, odontologos, lotes>>

-----------------------------------------------------------------------------
(* notificaciones: whatsapp_incoming *)

\* the sender of a WhatsApp message, known by the phone of patient p
Telefono(p) == [id_usuario |-> UsuarioDePaciente(p), rol |-> NULL, pid |-> p]

\* the appointments a reply from that phone may refer to
candidatos_citas(p) ==
    {j \in Ids(citas) :
        /\ citas[j].id_paciente = p
        /\ citas[j].estado \in {ESTADO_PENDIENTE, ESTADO_CONFIRMADA, ESTADO_CANCELADA}
        /\ citas[j].fecha >= DateOf(now)}

whatsapp_incoming(id, decision) ==
    LET cita == citas[id]
    IN  IF decision = cita.estado THEN R(200, "", citas)
        ELSE IF decision = ESTADO_CONFIRMADA
        THEN Cita_save(citas, id, [cita EXCEPT !.estado = ESTADO_CONFIRMADA,
                                               !.cancelada_en = NULL,
                                               !.cancelada_por_rol = NULL])
        ELSE Cita_save(citas, id, [cita EXCEPT !.estado = ESTADO_CANCELADA,
                                               !.cancelada_en = now,
                                               !.cancelada_por_rol = ROL_PACIENTE])

\* POST webhooks/twilio/: the reply names its appointment by the message it answers, the
\* latest reminder or the earliest date, so any candidate may be the one selected
WhatsappIncoming ==
    /\ last = NoReq
    /\ \E p \in Pacientes, decision \in {ESTADO_CONFIRMADA, ESTADO_CANCELADA} :
           /\ \/ /\ candidatos_citas(p) = {}
                 /\ Responde("whatsapp", Telefono(p), 0, <<decision>>, R(200, "", citas), "")
              \/ \E id \in candidatos_citas(p) :
                   LET r == whatsapp_incoming(id, decision)
                   IN  Responde("whatsapp", Telefono(p), id, <<decision>>, r, r.cs[id].estado)
           /\ UNCHANGED <<horarios, bloqueos, consultorios, now, configuracion, odontologos, lotes>>

-----------------------------------------------------------------------------
(* management command autocancelar *)

autocancelar ==
    LET config == get_config
        horas_confirmar_hasta == PyOr(getattr(config, "horas_confirmar_hasta", 12), 12)
        threshold == now + 60 * horas_confirmar_hasta
    IN  [j \in Ids(citas) |->
            IF citas[j].estado = ESTADO_PENDIENTE
               /\ Combine(citas[j].fecha, citas[j].hora) <= threshold
            THEN [citas[j] EXCEPT !.estado = ESTADO_CANCELADA,
                                  !.cancelada_en = now,
                                  !.cancelada_por_rol = ROL_PACIENTE]
            ELSE citas[j]]

Autocancelar ==
    /\ last = NoReq
    /\ Responde("autocancelar", Sistema, 0, <<>>, R(200, "", autocancelar), "")
    /\ UNCHANGED <<horarios, bloqueos, consultorios, now, configuracion, odontologos, lotes>>

-----------------------------------------------------------------------------
(* Bulk transitions: services *)

\* _qFuturas(timezone.now())
\* _qFuturas(dtFrom): the rows that start at dtFrom or later
FuturaDesde(c, dtFrom) ==
    c.fecha > DateOf(dtFrom) \/ (c.fecha = DateOf(dtFrom) /\ c.hora >= TimeOf(dtFrom))

Futura(c) == FuturaDesde(c, now)

\* effective_from of a request: absent, or the first moment of the calendar
Cortes == {NULL, 0}

\* the cutoff a view hands to the service: effective_from, now when it is absent
DtFrom(desde) == IF desde = NULL THEN now ELSE desde

Min(S) == CHOOSE x \in S : \A y \in S : x <= y

\* uuid4(): a batch id no row carries
NuevoBatch(cs) == Min({n \in 1..(Len(cs) + 1) : \A j \in Ids(cs) : cs[j].batch_id # n})

\* an apply that only changes the estado
Huella_sin_sello(c, byRoleId, batch) == [c EXCEPT !.estado = ESTADO_MANTENIMIENTO]

\* the stamps of one apply: estado, reprogramada_en, reprogramada_por_rol, batch_id
Huella(c, byRoleId, batch) ==
    [c EXCEPT !.estado = ESTADO_MANTENIMIENTO,
              !.reprogramada_en = now,
              !.reprogramada_por_rol = byRoleId,
              !.batch_id = batch]

RECURSIVE GuardarMantenimiento(_, _, _, _)
\* for c in qs: c.estado = mantenimiento; ...; c.save(update_fields=...)
GuardarMantenimiento(cs, S, byRoleId, batch) ==
    IF S = {} THEN R(200, "", cs)
    ELSE LET r == Cita_save(cs, Min(S), Huella(cs[Min(S)], byRoleId, batch))
         IN  IF r.status # 200 THEN r
             ELSE GuardarMantenimiento(r.cs, S \ {Min(S)}, byRoleId, batch)

\* a failure that keeps the rows saved before it
Atomic_parcial(r) == r

\* an exception inside transaction.atomic leaves the table as it was
Atomic(r) == IF r.status = 200 THEN r ELSE R(r.status, r.err, citas)

\* the rows the preview of a room lists: future, of the room, not cancelled
previewMantenimientoConsultorio(k, dtFrom) ==
    {j \in Ids(citas) : /\ citas[j].id_consultorio = k
                        /\ FuturaDesde(citas[j], dtFrom)
                        /\ citas[j].estado # ESTADO_CANCELADA}

\* the qs of the room's apply, which is also the list it returns
applyMantenimientoConsultorio_qs(k, dtFrom) ==
    {j \in Ids(citas) : /\ citas[j].id_consultorio = k
                        /\ FuturaDesde(citas[j], dtFrom)
                        /\ citas[j].estado # ESTADO_CANCELADA}

applyMantenimientoConsultorio(k, byRoleId, dtFrom) ==
    Atomic(GuardarMantenimiento(citas, applyMantenimientoConsultorio_qs(k, dtFrom),
                                byRoleId, NuevoBatch(citas)))

applyReactivacionConsultorio(k, dtFrom) ==
    [j \in Ids(citas) |->
        IF citas[j].id_consultorio = k /\ citas[j].estado = ESTADO_MANTENIMIENTO
           /\ FuturaDesde(citas[j], dtFrom)
        THEN [citas[j] EXCEPT !.estado = ESTADO_PENDIENTE] ELSE citas[j]]

\* the rows the preview of a dentist lists: future, of the dentist, pendiente or confirmada
previewMantenimientoOdontologo(o, dtFrom) ==
    {j \in Ids(citas) : /\ citas[j].id_odontologo = o
                        /\ FuturaDesde(citas[j], dtFrom)
                        /\ citas[j].estado \in {ESTADO_PENDIENTE, ESTADO_CONFIRMADA}}

\* previewCambioHorarioOdontologo for a payload that enables 09:00-15:00 on the weekdays
\* of dias: the future pendiente or confirmada rows the new schedule leaves out
previewCambioHorarioOdontologo(o, dias) ==
    {j \in Ids(citas) : /\ citas[j].id_odontologo = o
                        /\ Futura(citas[j])
                        /\ citas[j].estado \in {ESTADO_PENDIENTE, ESTADO_CONFIRMADA}
                        /\ (Weekday(citas[j].fecha) \notin dias
                            \/ ~(540 <= citas[j].hora /\ citas[j].hora <= 900))}

\* a dentist's apply that skips the confirmed rows
applyMantenimientoOdontologo_qs_pendientes(o, dtFrom) ==
    {j \in Ids(citas) : /\ citas[j].id_odontologo = o
                        /\ FuturaDesde(citas[j], dtFrom)
                        /\ citas[j].estado = ESTADO_PENDIENTE}

\* the qs of the dentist's apply, which is also the list it returns
applyMantenimientoOdontologo_qs(o, dtFrom) ==
    {j \in Ids(citas) : /\ citas[j].id_odontologo = o
                        /\ FuturaDesde(citas[j], dtFrom)
                        /\ citas[j].estado \in {ESTADO_PENDIENTE, ESTADO_CONFIRMADA}}

applyMantenimientoOdontologo(o, byRoleId, dtFrom) ==
    Atomic(GuardarMantenimiento(citas, applyMantenimientoOdontologo_qs(o, dtFrom),
                                byRoleId, NuevoBatch(citas)))

applyReactivacionOdontologo(o, dtFrom) ==
    [j \in Ids(citas) |->
        IF citas[j].id_odontologo = o /\ citas[j].estado = ESTADO_MANTENIMIENTO
           /\ FuturaDesde(citas[j], dtFrom)
        THEN [citas[j] EXCEPT !.estado = ESTADO_PENDIENTE] ELSE citas[j]]

\* _qs_base_bloqueo for the one-day range [f..f] of a block that is not recurrent
qs_base_bloqueo(f, idOdontologo) ==
    {j \in Ids(citas) : /\ citas[j].fecha = f
                        /\ Futura(citas[j])
                        /\ citas[j].estado # ESTADO_CANCELADA
                        /\ (idOdontologo # NULL => citas[j].id_odontologo = idOdontologo)}

previewMantenimientoBloqueo(f, idOdontologo) ==
    {j \in qs_base_bloqueo(f, idOdontologo) :
        citas[j].estado \in {ESTADO_PENDIENTE, ESTADO_CONFIRMADA}}

previewReactivacionBloqueo(f, idOdontologo) ==
    {j \in qs_base_bloqueo(f, idOdontologo) : citas[j].estado = ESTADO_MANTENIMIENTO}

\* the qs of the block's apply, which is also the list it returns
applyMantenimientoBloqueo_qs(f, idOdontologo) ==
    {j \in qs_base_bloqueo(f, idOdontologo) :
        citas[j].estado \in {ESTADO_PENDIENTE, ESTADO_CONFIRMADA}}

applyMantenimientoBloqueo(f, byRoleId, idOdontologo) ==
    [j \in Ids(citas) |->
        IF j \in applyMantenimientoBloqueo_qs(f, idOdontologo)
        THEN Huella(citas[j], byRoleId, NuevoBatch(citas))
        ELSE citas[j]]

\* the qs of the block's reactivation, which is also the list it returns
applyReactivacionBloqueo_qs(f, idOdontologo) ==
    {j \in qs_base_bloqueo(f, idOdontologo) : citas[j].estado = ESTADO_MANTENIMIENTO}

applyReactivacionBloqueo(f, idOdontologo) ==
    [j \in Ids(citas) |->
        IF j \in applyReactivacionBloqueo_qs(f, idOdontologo)
        THEN [citas[j] EXCEPT !.estado = ESTADO_PENDIENTE] ELSE citas[j]]

-----------------------------------------------------------------------------
(* ConsultorioViewSet *)

\* a request that leaves the cita table alone
Hecho(status, err) == R(status, err, citas)

\* PATCH /consultorios/{k}/ with estado: open to every authenticated user
ConsultorioUpdate ==
    /\ last = NoReq
    /\ \E u \in Usuarios, k \in Consultorios, b \in BOOLEAN :
           /\ Responde("consultorio_update", u, 0, <<k>>, Hecho(200, ""), "")
           /\ consultorios' = [consultorios EXCEPT ![k] = b]
           /\ UNCHANGED <<horarios, bloqueos, now, configuracion, odontologos, lotes>>

\* POST /consultorios/{k}/preview-mantenimiento/
ConsultorioPreviewMantenimiento ==
    /\ last = NoReq
    /\ \E u \in Usuarios, k \in Consultorios, desde \in Cortes :
           /\ Masivo("consultorio_preview_mantenimiento", u, <<k, desde>>,
                     IF userRole(u) \notin {ROL_SUPERADMIN, ROL_ADMIN_CLIN}
                     THEN Hecho(403, "detail:permiso") ELSE Hecho(200, ""),
                     previewMantenimientoConsultorio(k, DtFrom(desde)), NULL)
           /\ UNCHANGED <<horarios, bloqueos, consultorios, now, configuracion, odontologos, lotes>>

\* POST /consultorios/{k}/apply-mantenimiento/, set_inactive left at its default
ConsultorioApplyMantenimiento ==
    /\ last = NoReq
    /\ \E u \in Usuarios, k \in Consultorios, confirm \in BOOLEAN, desde \in Cortes :
           LET r == IF userRole(u) \notin {ROL_SUPERADMIN, ROL_ADMIN_CLIN}
                    THEN Hecho(403, "detail:permiso")
                    ELSE IF ~confirm THEN Hecho(400, "detail:confirm")
                    ELSE applyMantenimientoConsultorio(k, userRole(u), DtFrom(desde))
           IN  /\ Masivo("consultorio_apply_mantenimiento", u, <<k, confirm, desde>>, r,
                         applyMantenimientoConsultorio_qs(k, DtFrom(desde)),
                         NuevoBatch(citas))
               /\ consultorios' = IF r.status = 200 THEN [consultorios EXCEPT ![k] = FALSE]
                                  ELSE consultorios
               /\ UNCHANGED <<horarios, bloqueos, now, configuracion, odontologos, lotes>>

\* POST /consultorios/{k}/apply-reactivate/, set_active left at its default
ConsultorioApplyReactivate ==
    /\ last = NoReq
    /\ \E u \in Usuarios, k \in Consultorios, desde \in Cortes :
           LET r == IF userRole(u) \notin {ROL_SUPERADMIN, ROL_ADMIN_CLIN}
                    THEN Hecho(403, "detail:permiso")
                    ELSE R(200, "", applyReactivacionConsultorio(k, DtFrom(desde)))
           IN  /\ Masivo("consultorio_apply_reactivate", u, <<k, desde>>, r,
                         {j \in Ids(citas) : r.cs[j] # citas[j]}, NULL)
               /\ consultorios' = IF r.status = 200 THEN [consultorios EXCEPT ![k] = TRUE]
                                  ELSE consultorios
               /\ UNCHANGED <<horarios, bloqueos, now, configuracion, odontologos, lotes>>

-----------------------------------------------------------------------------
(* OdontologoViewSet *)

\* IsOwnerDentistOrAdmin.has_object_permission for a write on dentist o
IsOwnerDentistOrAdmin(u, o) ==
    userRole(u) = ROL_SUPERADMIN \/ UsuarioDeOdontologo(o) = u.id_usuario

\* get_object runs after the service, inside the transaction
OdontologoBulk(u, o, r) ==
    IF userRole(u) \notin {ROL_SUPERADMIN, ROL_ADMIN_CLIN} THEN Hecho(403, "detail:permiso")
    ELSE IF r.status # 200 THEN r
    ELSE IF ~IsOwnerDentistOrAdmin(u, o) THEN Hecho(403, "detail:permiso")
    ELSE r

\* POST /odontologos/{o}/preview-mantenimiento/
OdontologoPreviewMantenimiento ==
    /\ last = NoReq
    /\ \E u \in Usuarios, o \in Odontologos, desde \in Cortes :
           /\ Masivo("odontologo_preview_mantenimiento", u, <<o, desde>>,
                     IF userRole(u) \notin {ROL_SUPERADMIN, ROL_ADMIN_CLIN}
                     THEN Hecho(403, "detail:permiso") ELSE Hecho(200, ""),
                     previewMantenimientoOdontologo(o, DtFrom(desde)), NULL)
           /\ UNCHANGED <<horarios, bloqueos, consultorios, now, configuracion, odontologos, lotes>>

\* POST /odontologos/{o}/preview-horario-change/
OdontologoPreviewHorarioChange ==
    /\ last = NoReq
    /\ \E u \in Usuarios, o \in Odontologos, dias \in SUBSET {Weekday(f) : f \in Fechas} :
           /\ Masivo("odontologo_preview_horario_change", u, <<o, dias>>,
                     IF userRole(u) \notin {ROL_SUPERADMIN, ROL_ADMIN_CLIN}
                     THEN Hecho(403, "detail:permiso") ELSE Hecho(200, ""),
                     previewCambioHorarioOdontologo(o, dias), NULL)
           /\ UNCHANGED <<horarios, bloqueos, consultorios, now, configuracion, odontologos, lotes>>

\* POST /odontologos/{o}/apply-mantenimiento/
OdontologoApplyMantenimiento ==
    /\ last = NoReq
    /\ \E u \in Usuarios, o \in Odontologos, confirm \in BOOLEAN, desde \in Cortes :
           LET r == IF userRole(u) \in {ROL_SUPERADMIN, ROL_ADMIN_CLIN} /\ ~confirm
                    THEN Hecho(400, "detail:confirm")
                    ELSE OdontologoBulk(u, o, applyMantenimientoOdontologo(o, userRole(u),
                                                                           DtFrom(desde)))
           IN  /\ Masivo("odontologo_apply_mantenimiento", u, <<o, confirm, desde>>, r,
                         applyMantenimientoOdontologo_qs(o, DtFrom(desde)), NuevoBatch(citas))
               /\ odontologos' = IF r.status = 200 THEN [odontologos EXCEPT ![o] = FALSE]
                                 ELSE odontologos
               /\ UNCHANGED <<horarios, bloqueos, consultorios, now, configuracion, lotes>>

\* POST /odontologos/{o}/apply-reactivate/
OdontologoApplyReactivate ==
    /\ last = NoReq
    /\ \E u \in Usuarios, o \in Odontologos, desde \in Cortes :
           LET r == OdontologoBulk(u, o, R(200, "", applyReactivacionOdontologo(o, DtFrom(desde))))
           IN  /\ Masivo("odontologo_apply_reactivate", u, <<o, desde>>, r,
                         {j \in Ids(citas) : r.cs[j] # citas[j]}, NULL)
               /\ odontologos' = IF r.status = 200 THEN [odontologos EXCEPT ![o] = TRUE]
                                 ELSE odontologos
               /\ UNCHANGED <<horarios, bloqueos, consultorios, now, configuracion, lotes>>

\* POST /odontologos/{o}/apply-horario-change/: an exception of the service is answered
\* with a 500 by the handler itself
OdontologoApplyHorarioChange ==
    /\ last = NoReq
    /\ \E u \in Usuarios, o \in Odontologos, confirm \in BOOLEAN :
           /\ Masivo("odontologo_apply_horario_change", u, <<o, confirm>>,
                     IF userRole(u) \notin {ROL_SUPERADMIN, ROL_ADMIN_CLIN}
                     THEN Hecho(403, "detail:permiso")
                     ELSE IF ~confirm THEN Hecho(400, "detail:confirm")
                     ELSE applyMantenimientoOdontologo(o, userRole(u), now),
                     applyMantenimientoOdontologo_qs(o, now), NuevoBatch(citas))
           /\ UNCHANGED <<horarios, bloqueos, consultorios, now, configuracion, odontologos, lotes>>

\* OdontologoSerializer._apply_horarios: the dentist's rows are replaced by the payload's,
\* here 09:00-15:00 on each weekday of dias
apply_horarios(o, dias) ==
    {h \in horarios : h.id_odontologo # o}
    \cup {[id_odontologo |-> o, dia_semana |-> d,
           hora_inicio |-> 540, hora_fin |-> 900, vigente |-> TRUE] : d \in dias}

\* PATCH /odontologos/{o}/ with horarios
OdontologoUpdate ==
    /\ last = NoReq
    /\ \E u \in Usuarios, o \in Odontologos, dias \in SUBSET {Weekday(f) : f \in Fechas} :
           /\ Responde("odontologo_update", u, 0, <<o>>,
                       IF IsOwnerDentistOrAdmin(u, o) THEN Hecho(200, "")
                       ELSE Hecho(403, "detail:permiso"), "")
           /\ horarios' = IF IsOwnerDentistOrAdmin(u, o) THEN apply_horarios(o, dias)
                          ELSE horarios
           /\ UNCHANGED <<bloqueos, consultorios, now, configuracion, odontologos, lotes>>

-----------------------------------------------------------------------------
(* BloqueoDiaViewSet: groups of one day *)

\* the scope of a block: NULL for a global one
Alcances == {NULL} \cup Odontologos

\* the dentist row of the caller, NULL when he has none
MiOdontologo(u) ==
    IF \E o \in Odontologos : UsuarioDeOdontologo(o) = u.id_usuario
    THEN CHOOSE o \in Odontologos : UsuarioDeOdontologo(o) = u.id_usuario
    ELSE NULL

NuevoGrupo == Min({n \in 1..(Cardinality(bloqueos) + 1) : \A b \in bloqueos : b.grupo # n})

\* BloqueoGrupoSerializer.create for fecha_inicio = fecha_fin = f, not recurrent:
\* the error it raises, "" when the rows are created
BloqueoGrupoError(u, idOd, f) ==
    IF idOd = NULL /\ userRole(u) # ROL_SUPERADMIN THEN "id_odontologo:global"
    ELSE IF userRole(u) = ROL_ODONTOLOGO /\ idOd # NULL /\ MiOdontologo(u) # idOd
    THEN "id_odontologo:ajeno"
    ELSE IF \E b \in bloqueos :
                /\ b.id_odontologo = idOd
                /\ (IF b.recurrente_anual THEN Month_Day(b.fecha) = Month_Day(f)
                    ELSE b.fecha = f)
    THEN "non_field_errors:solape"
    ELSE ""

BloqueoGrupoCreate(idOd, f) ==
    bloqueos \cup {[grupo |-> NuevoGrupo, id_odontologo |-> idOd,
                    fecha |-> f, recurrente_anual |-> FALSE]}

\* POST /bloqueos-dias/
BloqueoCreate ==
    /\ last = NoReq
    /\ \E u \in Usuarios, idOd \in Alcances, f \in Fechas :
           LET err == BloqueoGrupoError(u, idOd, f)
           IN  /\ Cardinality(bloqueos) < MaxBloqueos
               /\ Responde("bloqueo_create", u, 0, <<idOd, f>>,
                           IF err = "" THEN Hecho(201, "") ELSE Hecho(400, err), "")
               /\ bloqueos' = IF err = "" THEN BloqueoGrupoCreate(idOd, f) ELSE bloqueos
               /\ UNCHANGED <<horarios, consultorios, now, configuracion, odontologos, lotes>>

\* POST /bloqueos-dias/create-and-apply/
BloqueoCreateAndApply ==
    /\ last = NoReq
    /\ \E u \in Usuarios, idOd \in Alcances, f \in Fechas, confirm \in BOOLEAN :
           LET err == BloqueoGrupoError(u, idOd, f)
               r   == IF err # "" THEN Hecho(400, err)
                      ELSE IF ~confirm \/ previewMantenimientoBloqueo(f, idOd) = {}
                      THEN Hecho(201, "")
                      ELSE R(201, "", applyMantenimientoBloqueo(f, userRole(u), idOd))
               aplica == err = "" /\ confirm /\ previewMantenimientoBloqueo(f, idOd) # {}
           IN  /\ Cardinality(bloqueos) < MaxBloqueos
               /\ Masivo("bloqueo_create_and_apply", u, <<idOd, f, confirm>>, r,
                         IF aplica THEN applyMantenimientoBloqueo_qs(f, idOd)
                         ELSE previewMantenimientoBloqueo(f, idOd),
                         IF aplica THEN NuevoBatch(citas) ELSE NULL)
               /\ bloqueos' = IF err = "" THEN BloqueoGrupoCreate(idOd, f) ELSE bloqueos
               /\ lotes' = IF aplica THEN lotes \cup {<<NuevoGrupo, NuevoBatch(citas)>>}
                           ELSE lotes
               /\ UNCHANGED <<horarios, consultorios, now, configuracion, odontologos>>

\* _restricted_qs on the rows of group g
restricted_qs(u, g) ==
    {b \in bloqueos :
        /\ b.grupo = g
        /\ (userRole(u) = ROL_SUPERADMIN
            \/ b.id_odontologo = NULL
            \/ (userRole(u) = ROL_ODONTOLOGO /\ b.id_odontologo # NULL
                /\ UsuarioDeOdontologo(b.id_odontologo) = u.id_usuario))}

\* DELETE /bloqueos-dias/{g}/: reactivate, then delete the rows
BloqueoDestroy ==
    /\ last = NoReq
    /\ \E u \in Usuarios, g \in {b.grupo : b \in bloqueos} :
           LET qs == restricted_qs(u, g)
               b0 == CHOOSE b \in qs : TRUE
               denied == userRole(u) # ROL_SUPERADMIN /\ \E b \in qs : b.id_odontologo = NULL
               r  == IF qs = {} THEN Hecho(204, "")
                     ELSE IF denied THEN Hecho(403, "detail:global")
                     ELSE R(204, "", applyReactivacionBloqueo(b0.fecha, b0.id_odontologo))
           IN  /\ Responde("bloqueo_destroy", u, 0, <<g>>, r, "")
               /\ bloqueos' = IF qs # {} /\ ~denied THEN bloqueos \ qs ELSE bloqueos
               /\ lotes' = IF qs # {} /\ ~denied THEN {l \in lotes : l[1] # g} ELSE lotes
               /\ UNCHANGED <<horarios, consultorios, now, configuracion, odontologos>>

\* a collection preview that saves the group it validated
BloqueoPreviewMantenimientoCollection_guarda ==
    /\ last = NoReq
    /\ \E u \in Usuarios, idOd \in Alcances, f \in Fechas :
           /\ Masivo("bloqueo_preview_mantenimiento_collection", u, <<idOd, f>>,
                     Hecho(200, ""), previewMantenimientoBloqueo(f, idOd), NULL)
           /\ bloqueos' = BloqueoGrupoCreate(idOd, f)
           /\ UNCHANGED <<horarios, consultorios, now, configuracion, odontologos, lotes>>

\* POST /bloqueos-dias/preview-mantenimiento/: the payload is validated, never saved
BloqueoPreviewMantenimientoCollection ==
    /\ last = NoReq
    /\ \E u \in Usuarios, idOd \in Alcances, f \in Fechas :
           /\ Masivo("bloqueo_preview_mantenimiento_collection", u, <<idOd, f>>,
                     Hecho(200, ""), previewMantenimientoBloqueo(f, idOd), NULL)
           /\ UNCHANGED <<horarios, bloqueos, consultorios, now, configuracion, odontologos, lotes>>

\* the answer of the two previews of group g before the service is called
BloqueoPreviewDetailError(u, g) ==
    IF restricted_qs(u, g) = {} THEN Hecho(404, "detail:no_encontrado")
    ELSE IF userRole(u) # ROL_SUPERADMIN /\ \E b \in restricted_qs(u, g) : b.id_odontologo = NULL
    THEN Hecho(403, "detail:global")
    ELSE Hecho(200, "")

\* POST /bloqueos-dias/{g}/preview-mantenimiento/
BloqueoPreviewMantenimientoDetail ==
    /\ last = NoReq
    /\ \E u \in Usuarios, b \in bloqueos :
           /\ Masivo("bloqueo_preview_mantenimiento_detail", u, <<b.grupo>>,
                     BloqueoPreviewDetailError(u, b.grupo),
                     previewMantenimientoBloqueo(b.fecha, b.id_odontologo), NULL)
           /\ UNCHANGED <<horarios, bloqueos, consultorios, now, configuracion, odontologos, lotes>>

\* POST /bloqueos-dias/{g}/preview-reactivar/
BloqueoPreviewReactivarDetail ==
    /\ last = NoReq
    /\ \E u \in Usuarios, b \in bloqueos :
           /\ Masivo("bloqueo_preview_reactivar_detail", u, <<b.grupo>>,
                     BloqueoPreviewDetailError(u, b.grupo),
                     previewReactivacionBloqueo(b.fecha, b.id_odontologo), NULL)
           /\ UNCHANGED <<horarios, bloqueos, consultorios, now, configuracion, odontologos, lotes>>

\* POST /bloqueos-dias/{g}/apply-mantenimiento/
BloqueoApplyMantenimientoDetail ==
    /\ last = NoReq
    /\ \E u \in Usuarios, b \in bloqueos, confirm \in BOOLEAN :
           /\ Masivo("bloqueo_apply_mantenimiento_detail", u, <<b.grupo, confirm>>,
                     IF userRole(u) # ROL_SUPERADMIN THEN Hecho(403, "detail:permiso")
                     ELSE IF ~confirm THEN Hecho(400, "detail:confirm")
                     ELSE R(200, "", applyMantenimientoBloqueo(b.fecha, userRole(u),
                                                             b.id_odontologo)),
                     applyMantenimientoBloqueo_qs(b.fecha, b.id_odontologo), NuevoBatch(citas))
           /\ lotes' = IF userRole(u) = ROL_SUPERADMIN /\ confirm
                       THEN lotes \cup {<<b.grupo, NuevoBatch(citas)>>} ELSE lotes
           /\ UNCHANGED <<horarios, bloqueos, consultorios, now, configuracion, odontologos>>

\* POST /bloqueos-dias/{g}/apply-reactivar/
BloqueoApplyReactivarDetail ==
    /\ last = NoReq
    /\ \E u \in Usuarios, b \in bloqueos :
           /\ Masivo("bloqueo_apply_reactivar_detail", u, <<b.grupo>>,
                     IF userRole(u) # ROL_SUPERADMIN THEN Hecho(403, "detail:permiso")
                     ELSE R(200, "", applyReactivacionBloqueo(b.fecha, b.id_odontologo)),
                     applyReactivacionBloqueo_qs(b.fecha, b.id_odontologo), NULL)
           /\ UNCHANGED <<horarios, bloqueos, consultorios, now, configuracion, odontologos, lotes>>

-----------------------------------------------------------------------------
(* A booking that overlaps a create-and-apply *)

\* POST /bloqueos-dias/create-and-apply/ with confirm for day f, handled while a booking
\* into day f is handled (POST /citas/ when id = 0, else PATCH /citas/{id}/reprogramar/).
\* Neither request takes a lock the other waits for: the booking validates against the
\* blocks it can read, the transaction of the block selects the rows it can read, and the
\* booking's INSERT or UPDATE (of its update_fields) lands after that selection.
ReservaYBloqueoConcurrentes ==
    /\ last = NoReq
    /\ Cardinality(bloqueos) < MaxBloqueos
    /\ \E u1 \in Usuarios, u2 \in Usuarios, idOd \in Alcances, id \in 0..Len(citas),
          p \in Pacientes, o \in Odontologos, k \in ConsultorioParam,
          f \in Fechas, h \in Horas :
           LET err2    == BloqueoGrupoError(u2, idOd, f)
               aplica  == err2 = "" /\ previewMantenimientoBloqueo(f, idOd) # {}
               barrida == IF aplica THEN applyMantenimientoBloqueo(f, userRole(u2), idOd)
                          ELSE citas
               r1      == IF id = 0 THEN perform_create(u1, p, o, k, f, h)
                          ELSE IF Visible(u1, id) THEN reprogramar(u1, id, f, h, k)
                          ELSE R(404, "detail:no_encontrada", citas)
               escrita == IF id = 0 THEN Append(barrida, r1.cs[Len(r1.cs)])
                          ELSE [barrida EXCEPT
                                   ![id].fecha = r1.cs[id].fecha,
                                   ![id].hora = r1.cs[id].hora,
                                   ![id].id_consultorio = r1.cs[id].id_consultorio,
                                   ![id].reprogramaciones = r1.cs[id].reprogramaciones,
                                   ![id].reprogramada_en = r1.cs[id].reprogramada_en,
                                   ![id].reprogramada_por_rol = r1.cs[id].reprogramada_por_rol]
               w1      == IF r1.status \notin {200, 201} THEN R(r1.status, r1.err, barrida)
                          ELSE IF IntegrityError(escrita) = "" THEN R(r1.status, "", escrita)
                          ELSE IF id = 0
                          THEN R(400, IntegrityField(IntegrityError(escrita)), barrida)
                          ELSE R(500, IntegrityError(escrita), barrida)
           IN  /\ id = 0 => (Len(citas) < MaxCitas /\ k # 0)
               /\ id # 0 => (p = 1 /\ o = citas[id].id_odontologo)
               /\ (id = 0 /\ isPatientMode(u1)) => p = pacienteIdFromUser(u1)
               /\ citas' = w1.cs
               /\ last' = [Resp("reserva_y_bloqueo", u1, id, <<f, h, k, idOd, p, o>>, citas,
                                w1.status, w1.err, "")
                           EXCEPT !.status2 = IF err2 = "" THEN 201 ELSE 400,
                                  !.err2 = err2,
                                  !.batch_id = IF aplica THEN NuevoBatch(citas) ELSE NULL]
               /\ bloqueos' = IF err2 = "" THEN BloqueoGrupoCreate(idOd, f) ELSE bloqueos
               /\ lotes' = IF aplica THEN lotes \cup {<<NuevoGrupo, NuevoBatch(citas)>>}
                           ELSE lotes
               /\ UNCHANGED <<horarios, consultorios, now, configuracion, odontologos>>

-----------------------------------------------------------------------------
\* time passes
Tick ==
    /\ last = NoReq
    /\ now + 720 <= MaxNow
    /\ now' = now + 720
    /\ UNCHANGED <<citas, horarios, bloqueos, consultorios, last, configuracion, odontologos, lotes>>

Next ==
    \/ CitaSave
    \/ Create
    \/ CreateConcurrente
    \/ Update
    \/ Confirmar
    \/ Cancelar
    \/ Reprogramar
    \/ WhatsappIncoming
    \/ Autocancelar
    \/ ConsultorioUpdate
    \/ ConsultorioApplyMantenimiento
    \/ ConsultorioApplyReactivate
    \/ OdontologoApplyMantenimiento
    \/ OdontologoApplyReactivate
    \/ OdontologoUpdate
    \/ BloqueoCreate
    \/ BloqueoCreateAndApply
    \/ BloqueoDestroy
    \/ ConsultorioPreviewMantenimiento
    \/ OdontologoPreviewMantenimiento
    \/ OdontologoPreviewHorarioChange
    \/ OdontologoApplyHorarioChange
    \/ BloqueoPreviewMantenimientoCollection
    \/ BloqueoPreviewMantenimientoDetail
    \/ BloqueoPreviewReactivarDetail
    \/ BloqueoApplyMantenimientoDetail
    \/ BloqueoApplyReactivarDetail
    \/ ReservaYBloqueoConcurrentes
    \/ Entregar
    \/ Tick

Spec == Init /\ [][Next]_vars

-----------------------------------------------------------------------------
(* Parts of the system *)

\* booking and cancelling, request after request
NextReserva ==
    \/ Create
    \/ CreateConcurrente
    \/ Cancelar
    \/ Entregar
    \/ Tick

SpecReserva == Init /\ [][NextReserva]_vars

\* confirming, request after request
NextConfirmar ==
    \/ Confirmar
    \/ Entregar
    \/ Tick

SpecConfirmar == Init /\ [][NextConfirmar]_vars

\* cancelling, request after request
NextCancelar ==
    \/ Cancelar
    \/ Entregar
    \/ Tick

SpecCancelar == Init /\ [][NextCancelar]_vars

\* one request of a patient, or one reply by WhatsApp, on any database
NextPaciente ==
    \/ Update
    \/ Confirmar
    \/ Cancelar
    \/ Reprogramar
    \/ WhatsappIncoming
    \/ Tick

SpecPaciente == Init /\ [][NextPaciente]_vars

\* one write to the cita table, by whatever writes to it, on any database
NextEscritura ==
    \/ CitaSave
    \/ Create
    \/ CreateConcurrente
    \/ Update
    \/ Confirmar
    \/ Cancelar
    \/ Reprogramar
    \/ WhatsappIncoming
    \/ Autocancelar
    \/ ConsultorioApplyMantenimiento
    \/ ConsultorioApplyReactivate
    \/ OdontologoApplyMantenimiento
    \/ OdontologoApplyReactivate
    \/ OdontologoApplyHorarioChange
    \/ BloqueoCreateAndApply
    \/ BloqueoApplyMantenimientoDetail
    \/ BloqueoApplyReactivarDetail
    \/ BloqueoDestroy
    \/ Tick

SpecEscritura == Init /\ [][NextEscritura]_vars

\* the bulk services and their previews: one request on any database
NextMasivo ==
    \/ ConsultorioPreviewMantenimiento
    \/ ConsultorioApplyMantenimiento
    \/ ConsultorioApplyReactivate
    \/ OdontologoPreviewMantenimiento
    \/ OdontologoPreviewHorarioChange
    \/ OdontologoApplyMantenimiento
    \/ OdontologoApplyReactivate
    \/ OdontologoApplyHorarioChange
    \/ BloqueoPreviewMantenimientoCollection
    \/ BloqueoCreateAndApply
    \/ BloqueoPreviewMantenimientoDetail
    \/ BloqueoPreviewReactivarDetail
    \/ BloqueoApplyMantenimientoDetail
    \/ BloqueoApplyReactivarDetail
    \/ BloqueoDestroy
    \/ Tick

SpecMasivo == Init /\ [][NextMasivo]_vars

\* the life of a block next to the maintenance of a room, request after request, on a
\* database that holds pending appointments of one patient only and no block yet
TablasPendientes ==
    {t \in TablasIniciales :
        \A j \in Ids(t) : t[j].estado = ESTADO_PENDIENTE /\ t[j].id_paciente = 1}

InitBloqueo ==
    /\ citas \in TablasPendientes
    /\ horarios = HorariosIniciales
    /\ bloqueos = {}
    /\ consultorios = [k \in Consultorios |-> TRUE]
    /\ odontologos = [o \in Odontologos |-> TRUE]
    /\ lotes = {}
    /\ configuracion = ConfiguracionDefaults
    /\ now = 0
    /\ last = NoReq

NextBloqueo ==
    \/ BloqueoCreateAndApply
    \/ BloqueoApplyMantenimientoDetail
    \/ ConsultorioApplyMantenimiento
    \/ BloqueoDestroy
    \/ Entregar

SpecBloqueo == InitBloqueo /\ [][NextBloqueo]_vars

\* a booking and a block that overlap: one pair of requests on any database
NextCarrera ==
    \/ ReservaYBloqueoConcurrentes
    \/ Tick

SpecCarrera == InitBloqueo /\ [][NextCarrera]_vars

-----------------------------------------------------------------------------
(* Properties *)

Terminales == {ESTADO_CANCELADA, ESTADO_REALIZADA, ESTADO_MANTENIMIENTO}

Activa(c) == c.estado # ESTADO_CANCELADA

\* the row a POST /citas/ with inputs req = <<p, o, k, f, h>> asks for
Pedida(req) == NuevaCita(req[1], req[2], req[3], req[4], req[5], ESTADO_PENDIENTE)

\* the estado section 4 of the specification gives a new appointment
EstadoEsperado(f, h) ==
    IF minutesUntil(f, h) < 60 * configuracion.horas_autoconfirmar
    THEN ESTADO_CONFIRMADA ELSE ESTADO_PENDIENTE

\* a caller the checks of patient mode do not apply to
EsStaff(rol) == rol \in {ROL_SUPERADMIN, ROL_ODONTOLOGO, ROL_ADMIN_CLIN}

\* C1: whatever wrote to the table last, no two distinct appointments that are not
\* cancelled share the dentist, the room or the patient at one date and hour.
C1_SinChoque ==
    \A i \in Ids(citas), j \in Ids(citas) :
        (i # j /\ Activa(citas[i]) /\ Activa(citas[j])
         /\ citas[i].fecha = citas[j].fecha /\ citas[i].hora = citas[j].hora)
        => /\ citas[i].id_odontologo # citas[j].id_odontologo
           /\ citas[i].id_consultorio # citas[j].id_consultorio
           /\ citas[i].id_paciente # citas[j].id_paciente

\* a reschedule was accepted and two active appointments now share a date and hour
C1_Witness ==
    /\ last.op = "reprogramar"
    /\ last.status = 200
    /\ \E i \in Ids(citas), j \in Ids(citas) :
          /\ i # j /\ i = last.id
          /\ Activa(citas[i]) /\ Activa(citas[j])
          /\ citas[i].fecha = citas[j].fecha /\ citas[i].hora = citas[j].hora
          /\ last.previa[1].fecha # citas[i].fecha

\* C2 as the specification states it: of two bookings of one dentist, date and hour
\* handled at the same time, both valid on the table they read, exactly one is
\* stored and the other is answered with a conflict error.
C2_UnaPersiste ==
    [][(last'.op = "create_concurrente"
        /\ clean(citas, Pedida(last'.req), 0) = ""
        /\ clean(citas, [Pedida(last'.req) EXCEPT !.id_paciente = last'.req[6],
                                                  !.id_consultorio = last'.req[7]], 0) = "")
       => (/\ Len(citas') = Len(citas) + 1
           /\ {last'.status, last'.status2} = {201, 400}
           /\ \/ last'.err \in {"hora:odontologo", "id_consultorio:ocupado",
                                "id_paciente:ocupado"}
              \/ last'.err2 \in {"hora:odontologo", "id_consultorio:ocupado",
                                 "id_paciente:ocupado"})]_vars

\* C3 as the specification states it: staff booking a dentist, date and hour that an
\* active appointment holds is answered with the dentist-conflict error, and booking
\* the key of a cancelled appointment that nothing else stands against succeeds.
C3_ConflictoYLiberacion ==
    [][(last'.op = "create" /\ EsStaff(last'.rol))
       => (/\ clean(citas, Pedida(last'.req), 0) = "hora:odontologo"
                => (last'.status = 400 /\ last'.err = "hora:odontologo" /\ citas' = citas)
           /\ (clean(citas, Pedida(last'.req), 0) = ""
               /\ \E j \in Ids(citas) :
                     /\ citas[j].estado = ESTADO_CANCELADA
                     /\ citas[j].id_odontologo = last'.req[2]
                     /\ citas[j].fecha = last'.req[4]
                     /\ citas[j].hora = last'.req[5])
                => (last'.status = 201 /\ Len(citas') = Len(citas) + 1))]_vars

\* C4 as the specification states it: a booking that nothing stands against is stored
\* as pendiente, or as confirmada exactly when fewer than horas_autoconfirmar hours
\* remain, whatever estado the request carried.
C4_EstadoInicial ==
    [][(last'.op = "create" /\ EsStaff(last'.rol)
        /\ clean(citas, Pedida(last'.req), 0) = "")
       => (/\ last'.status = 201
           /\ Len(citas') = Len(citas) + 1
           /\ citas'[Len(citas')].estado = EstadoEsperado(last'.req[4], last'.req[5]))]_vars

\* the minutes left until row id starts lie in the patient's confirmation window
EnVentana(c) ==
    /\ 60 * configuracion.horas_confirmar_hasta <= minutesUntil(c.fecha, c.hora)
    /\ minutesUntil(c.fecha, c.hora) <= 60 * configuracion.horas_confirmar_desde

\* C5 as the specification states it: a patient confirms his pending appointment
\* inside the window and is refused, with nothing changed, outside it; staff confirm
\* a pending appointment at any time.
C5_Ventana ==
    [][(last'.op = "confirmar" /\ last'.status # 404
        /\ citas[last'.id].estado = ESTADO_PENDIENTE)
       => IF last'.rol = ROL_PACIENTE /\ ~EnVentana(citas[last'.id])
          THEN last'.status >= 400 /\ citas' = citas
          ELSE last'.status = 200 /\ citas'[last'.id].estado = ESTADO_CONFIRMADA]_vars

\* C6: confirming an appointment that is cancelada, realizada or in mantenimiento is
\* answered with an error and changes nothing, whoever asks.
C6_ConfirmarTerminal ==
    [][(last'.op = "confirmar" /\ citas[last'.id].estado \in Terminales)
       => (last'.status \in {400, 404} /\ citas' = citas)]_vars

\* a patient was refused the confirmation of his own cancelled appointment
C6_Witness ==
    /\ last.op = "confirmar"
    /\ last.rol = ROL_PACIENTE
    /\ last.status = 400
    /\ last.previa[1].estado = ESTADO_CANCELADA
    /\ citas[last.id] = last.previa[1]

\* C7 as the specification states it: no request of a patient and no reply by WhatsApp
\* changes the estado of an appointment that is cancelada, realizada or in
\* mantenimiento.
C7_PacienteNoRevive ==
    [][((last'.op \in {"update", "confirmar", "cancelar", "reprogramar"}
         /\ last'.rol = ROL_PACIENTE)
        \/ last'.op = "whatsapp")
       => \A j \in Ids(citas) :
             citas[j].estado \in Terminales => citas'[j].estado = citas[j].estado]_vars

\* C8: cancelling an appointment that is cancelled already answers 200 with its id and
\* estado 'cancelada', and leaves every row, its estado, cancelada_en and
\* cancelada_por_rol included, as it was.
C8_CancelarIdempotente ==
    [][(last'.op = "cancelar" /\ last'.status # 404
        /\ citas[last'.id].estado = ESTADO_CANCELADA)
       => (/\ last'.status = 200
           /\ last'.estado = ESTADO_CANCELADA
           /\ citas' = citas)]_vars

\* an appointment the patient had cancelled was cancelled again, by someone else
C8_Witness ==
    /\ last.op = "cancelar"
    /\ last.status = 200
    /\ last.rol # ROL_PACIENTE
    /\ last.previa[1].estado = ESTADO_CANCELADA
    /\ last.previa[1].cancelada_por_rol = ROL_PACIENTE
    /\ last.previa[1].cancelada_en # NULL
    /\ citas[last.id] = last.previa[1]

\* C9 as the specification states it: cancelling is refused, with nothing changed, for
\* an appointment that is realizada or in mantenimiento and for a patient whose
\* appointment is confirmada; a patient cancelling his pending appointment leaves it
\* cancelada, stamped with the time and the patient role.
C9_Cancelar ==
    [][(last'.op = "cancelar" /\ last'.status # 404)
       => (/\ citas[last'.id].estado \in {ESTADO_REALIZADA, ESTADO_MANTENIMIENTO}
                => (last'.status = 400 /\ citas' = citas)
           /\ (last'.rol = ROL_PACIENTE /\ citas[last'.id].estado = ESTADO_CONFIRMADA)
                => (last'.status = 400 /\ citas' = citas)
           /\ (last'.rol = ROL_PACIENTE /\ citas[last'.id].estado = ESTADO_PENDIENTE)
                => (/\ last'.status = 200
                    /\ citas' = [citas EXCEPT ![last'.id] =
                                    [@ EXCEPT !.estado = ESTADO_CANCELADA,
                                              !.cancelada_en = now,
                                              !.cancelada_por_rol = ROL_PACIENTE]]))]_vars

\* C10 as the specification states it: staff, dentist or administrator cancel an
\* appointment that is pendiente or confirmada whatever became of its date, schedule
\* or room since it was booked.
C10_StaffCancelaSiempre ==
    [][(last'.op = "cancelar" /\ EsStaff(last'.rol)
        /\ citas[last'.id].estado \in {ESTADO_PENDIENTE, ESTADO_CONFIRMADA})
       => (last'.status = 200 /\ citas'[last'.id].estado = ESTADO_CANCELADA)]_vars

\* the earlier tests of perform_create let patient pid book dentist o on date f
PasaLimites(pid, o, f) ==
    /\ Cardinality(Activas(citas, pid)) < configuracion.max_citas_activas
    /\ Cardinality(MismoDia(citas, pid, f, 0)) < configuracion.max_citas_dia
    /\ ~\E j \in Activas(citas, pid) : citas[j].id_odontologo = o

\* C11 as the specification states it: a patient-mode booking is refused for cooldown
\* exactly when the patient himself cancelled an appointment with that dentist within
\* the last cooldown_dias days; a cancellation by staff or a dentist, which leaves no
\* patient stamp, never has that effect.
C11_Cooldown ==
    [][(last'.op = "create" /\ last'.rol = ROL_PACIENTE
        /\ Minute(last'.req[5]) = 0
        /\ PasaLimites(last'.pid, last'.req[2], last'.req[4]))
       => ((last'.status = 400 /\ last'.err = "id_odontologo:cooldown")
           <=> tieneCancelRecienteMismoOdo(citas, last'.pid, last'.req[2],
                                           configuracion.cooldown_dias))]_vars

\* the request answered in the next state was made by a patient or by WhatsApp
DePaciente ==
    \/ last'.op \in {"update", "confirmar", "cancelar", "reprogramar"}
       /\ last'.rol = ROL_PACIENTE
    \/ last'.op = "whatsapp"

MismoInicio(j) == citas'[j].fecha = citas[j].fecha /\ citas'[j].hora = citas[j].hora

\* C12 as the specification states it: no request, of any role, moves the date or hour
\* of an appointment that is realizada, cancelada or in mantenimiento, and no request
\* of a patient moves an appointment that is confirmada; this for reprogramar and for
\* an update that carries fecha or hora alike.
C12_NoMover ==
    [][\A j \in Ids(citas) :
          /\ citas[j].estado \in Terminales => MismoInicio(j)
          /\ (DePaciente /\ citas[j].estado = ESTADO_CONFIRMADA) => MismoInicio(j)]_vars

-----------------------------------------------------------------------------
(* The reschedule policy under other stored configurations *)

\* rows the configuracion table may hold instead of the defaults; each passes the
\* validators of its fields and Configuracion.clean
Politicas ==
    {ConfiguracionDefaults,
     [ConfiguracionDefaults EXCEPT !.max_reprogramaciones = 0, !.max_citas_dia = 2],
     [ConfiguracionDefaults EXCEPT !.max_reprogramaciones = 2]}

\* the appointments of the one patient who has a patient account, each moved r times
\* already
TablasDelPaciente ==
    {[j \in Ids(t) |-> [t[j] EXCEPT !.reprogramaciones = r]] :
        t \in {x \in TablasIniciales :
                  \A j \in Ids(x) : UsuarioDePaciente(x[j].id_paciente) = 1},
        r \in 0..(MaxReprogramaciones - 1)}

InitPolitica ==
    /\ citas \in TablasDelPaciente
    /\ horarios = HorariosIniciales
    /\ bloqueos \in BloqueosIniciales
    /\ consultorios = [k \in Consultorios |-> TRUE]
    /\ odontologos = [o \in Odontologos |-> TRUE]
    /\ lotes = {}
    /\ configuracion \in Politicas
    /\ now = 0
    /\ last = NoReq

NextPolitica == Update \/ Reprogramar

SpecPolitica == InitPolitica /\ [][NextPolitica]_vars

\* the request answered in the next state moved row j on behalf of its patient
MovidaPorPaciente(j) ==
    /\ last'.op \in {"update", "reprogramar"}
    /\ last'.rol = ROL_PACIENTE
    /\ last'.id = j
    /\ ~MismoInicio(j)

\* C13 as the specification states it: a patient moves an appointment only while the
\* moves counted on it so far are fewer than the stored max_reprogramaciones, so their
\* number never exceeds it, whatever that value is (0 included) and whether the patient
\* uses reprogramar or an ordinary update.
C13_MaxReprogramaciones ==
    [][\A j \in Ids(citas) :
          MovidaPorPaciente(j)
          => citas[j].reprogramaciones < configuracion.max_reprogramaciones]_vars

\* the date a patient's update or reprogramar request asks for
FechaPedida ==
    IF last'.op = "reprogramar" THEN last'.req[1]
    ELSE IF "fecha" \in last'.req[1].campos THEN last'.req[1].fecha
    ELSE citas[last'.id].fecha

\* C14 as the specification states it: a patient's move to a date is refused for the
\* per-day cap only when his other appointments of that date reach the stored
\* max_citas_dia, and is accepted only when they are fewer; reprogramar and the
\* ordinary update apply that same cap.
C14_MaxCitasDia ==
    [][(last'.op \in {"update", "reprogramar"} /\ last'.rol = ROL_PACIENTE
        /\ last'.status # 404)
       => LET otras == Cardinality(MismoDia(citas, last'.pid, FechaPedida, last'.id))
          IN  /\ last'.err = "fecha:max_dia" => otras >= configuracion.max_citas_dia
              /\ MovidaPorPaciente(last'.id) => otras < configuracion.max_citas_dia]_vars

\* C15 as the specification states it: no create, update, confirm, cancel or reschedule
\* request, of any user, leaves in 'mantenimiento' an appointment that was not in it.
C15_SoloServicioMasivo ==
    [][last'.op \in {"create", "update", "confirmar", "cancelar", "reprogramar"}
       => \A j \in Ids(citas') :
             citas'[j].estado = ESTADO_MANTENIMIENTO
             => (j \in Ids(citas) /\ citas[j].estado = ESTADO_MANTENIMIENTO)]_vars

\* the operations that place rows into maintenance, and those that bring them back
OpsMantenimiento ==
    {"consultorio_apply_mantenimiento", "odontologo_apply_mantenimiento",
     "odontologo_apply_horario_change", "bloqueo_create_and_apply",
     "bloqueo_apply_mantenimiento_detail"}

OpsReactivacion ==
    {"consultorio_apply_reactivate", "odontologo_apply_reactivate",
     "bloqueo_apply_reactivar_detail", "bloqueo_destroy"}

\* C16: a maintenance apply (dentist, room or block) changes no field of a row that is
\* cancelada or realizada, and a reactivation changes no row that is not in mantenimiento
C16_MasivoRespeta ==
    [][/\ last'.op \in OpsMantenimiento =>
            \A j \in Ids(citas) :
                citas[j].estado \in {ESTADO_CANCELADA, ESTADO_REALIZADA} => citas'[j] = citas[j]
       /\ last'.op \in OpsReactivacion =>
            \A j \in Ids(citas) :
                citas[j].estado # ESTADO_MANTENIMIENTO => citas'[j] = citas[j]]_vars

\* the scope of a bulk request: the rows of the room, of the dentist, or of the block's day
EnAlcance(op, req, c) ==
    IF op = "consultorio_apply_mantenimiento" THEN c.id_consultorio = req[1]
    ELSE IF op \in {"odontologo_apply_mantenimiento", "odontologo_apply_horario_change"}
    THEN c.id_odontologo = req[1]
    ELSE IF op = "bloqueo_create_and_apply"
    THEN c.fecha = req[2] /\ (req[1] # NULL => c.id_odontologo = req[1])
    ELSE \E b \in bloqueos :
            /\ b.grupo = req[1]
            /\ c.fecha = b.fecha
            /\ (b.id_odontologo # NULL => c.id_odontologo = b.id_odontologo)

\* the cutoff of a bulk request: effective_from where the handler reads one, else now
CorteDe(op, req) ==
    IF op \in {"consultorio_apply_mantenimiento", "odontologo_apply_mantenimiento"}
    THEN (IF req[3] = NULL THEN now ELSE req[3])
    ELSE now

PreviewDe(op, req) ==
    IF op = "consultorio_apply_mantenimiento"
    THEN previewMantenimientoConsultorio(req[1], CorteDe(op, req))
    ELSE IF op \in {"odontologo_apply_mantenimiento", "odontologo_apply_horario_change"}
    THEN previewMantenimientoOdontologo(req[1], CorteDe(op, req))
    ELSE IF op = "bloqueo_create_and_apply"
    THEN previewMantenimientoBloqueo(req[2], req[1])
    ELSE UNION {previewMantenimientoBloqueo(b.fecha, b.id_odontologo) :
                    b \in {x \in bloqueos : x.grupo = req[1]}}

\* C18: for each scope and the same cutoff, with no operation in between, the rows the
\* preview lists are the rows the apply lists and moves into maintenance, and the
\* preview's total_afectadas is the apply's total_mantenimiento
C18_PreviewIgualApply ==
    [][(last'.op \in OpsMantenimiento /\ last'.batch_id # NULL) =>
          /\ last'.items = PreviewDe(last'.op, last'.req)
          /\ {j \in Ids(citas) : citas'[j] # citas[j]} = PreviewDe(last'.op, last'.req)
          /\ \A j \in PreviewDe(last'.op, last'.req) : citas'[j].estado = ESTADO_MANTENIMIENTO
          /\ last'.total = Cardinality(PreviewDe(last'.op, last'.req))]_vars

\* an apply has listed and moved one row and left an active row outside its scope alone
C18_Witness ==
    /\ last.op \in OpsMantenimiento
    /\ last.batch_id # NULL
    /\ last.total = 1
    /\ \E j \in last.items : citas[j].batch_id = last.batch_id
    /\ \E j \in Ids(citas) \ last.items :
          citas[j].estado \in {ESTADO_PENDIENTE, ESTADO_CONFIRMADA}

OpsPreview ==
    {"consultorio_preview_mantenimiento", "odontologo_preview_mantenimiento",
     "odontologo_preview_horario_change", "bloqueo_preview_mantenimiento_collection",
     "bloqueo_preview_mantenimiento_detail", "bloqueo_preview_reactivar_detail"}

\* C19: every preview (maintenance preview of a dentist, a room or a block, reactivation
\* preview, schedule-change preview) leaves the appointments, the blocks, the rooms and
\* the dentists (active flag and schedules) as they were
C19_PreviewNoMuta ==
    [][last'.op \in OpsPreview =>
          /\ citas' = citas
          /\ bloqueos' = bloqueos
          /\ consultorios' = consultorios
          /\ odontologos' = odontologos
          /\ horarios' = horarios]_vars

\* a preview has answered with a row that is still pendiente or confirmada
C19_Witness ==
    /\ last.op \in OpsPreview
    /\ last.status = 200
    /\ \E j \in last.items : citas[j].estado \in {ESTADO_PENDIENTE, ESTADO_CONFIRMADA}

\* confirm of a maintenance apply request
Confirmado(op, req) == IF op = "bloqueo_create_and_apply" THEN req[3] ELSE req[2]

\* C20: a confirmed maintenance apply that succeeds returns a batch id, also when no row
\* is affected, at every entry point, create-and-apply of a block included
C20_LoteSiempre ==
    [][(/\ last'.op \in OpsMantenimiento
        /\ Confirmado(last'.op, last'.req)
        /\ last'.status \in {200, 201})
       => last'.batch_id # NULL]_vars

\* C21: a maintenance apply is all-or-nothing: when it fails, also after some of the
\* affected rows were processed, no appointment has changed estado, batch_id or audit
\* fields, and the active flag of the dentist or the room is as it was
C21_TodoONada ==
    [][(last'.op \in OpsMantenimiento /\ last'.status \notin {200, 201}) =>
          /\ citas' = citas
          /\ consultorios' = consultorios
          /\ odontologos' = odontologos]_vars

\* the rows a failed room or dentist apply had selected
SeleccionFallida ==
    IF last.op = "consultorio_apply_mantenimiento"
    THEN applyMantenimientoConsultorio_qs(last.req[1], CorteDe(last.op, last.req))
    ELSE applyMantenimientoOdontologo_qs(last.req[1], CorteDe(last.op, last.req))

\* an apply has failed on its second row after the save of its first row had passed
C21_Witness ==
    /\ last.op \in {"consultorio_apply_mantenimiento", "odontologo_apply_mantenimiento",
                    "odontologo_apply_horario_change"}
    /\ last.status = 500
    /\ \E i, j \in SeleccionFallida :
          /\ i < j
          /\ Combine(citas[i].fecha, citas[i].hora) <= Combine(citas[j].fecha, citas[j].hora)
          /\ clean(citas, Huella(citas[i], last.rol, NuevoBatch(citas)), i) = ""
          /\ clean(citas, Huella(citas[j], last.rol, NuevoBatch(citas)), j) # ""
    /\ \A j \in Ids(citas) : citas[j].estado # ESTADO_MANTENIMIENTO

\* C22: deleting a block group returns to pendiente exactly the future rows that the
\* block's own apply had moved to mantenimiento and that are still in mantenimiento; a
\* row that is in mantenimiento for another reason is not reactivated by the deletion
C22_BorrarReactivaLoSuyo ==
    [][(last'.op = "bloqueo_destroy" /\ last'.status = 204 /\ bloqueos' # bloqueos) =>
          {j \in Ids(citas) : citas'[j] # citas[j]}
          = {j \in Ids(citas) :
                /\ citas[j].estado = ESTADO_MANTENIMIENTO
                /\ Futura(citas[j])
                /\ <<last'.req[1], citas[j].batch_id>> \in lotes}]_vars

\* C23: when a create-and-apply of a block with confirm overlaps a booking on the blocked
\* date in the block's scope, after both have finished no future row on that date in that
\* scope is pendiente or confirmada
C23_ReservaNoPasaElBloqueo ==
    [][(last'.op = "reserva_y_bloqueo" /\ last'.status2 = 201) =>
          \A j \in Ids(citas') :
              ~(/\ citas'[j].fecha = last'.req[1]
                /\ (last'.req[4] = NULL \/ citas'[j].id_odontologo = last'.req[4])
                /\ Futura(citas'[j])
                /\ citas'[j].estado \in {ESTADO_PENDIENTE, ESTADO_CONFIRMADA})]_vars

\* C24: in every reachable state no row that is pendiente or confirmada lies on a date an
\* applicable block covers (a global block or a block of its dentist, by exact date or,
\* for an annually recurring block, by month and day)
C24_SinActivasEnBloqueo ==
    \A j \in Ids(citas) :
        citas[j].estado \in {ESTADO_PENDIENTE, ESTADO_CONFIRMADA}
        => ~fechaBloqueada(citas[j].fecha, citas[j].id_odontologo)

-----------------------------------------------------------------------------
(* Hours of the rows *)

NextHora == CitaSaveHora \/ UpdateHora \/ ReprogramarHora

SpecHora == Init /\ [][NextHora]_vars

\* C25: every row that is not cancelled starts at minute 0 and at an hour that is
\* neither 13 nor 14
C25_HoraEnPunto ==
    \A j \in Ids(citas) :
        citas[j].estado # ESTADO_CANCELADA
        => (Minute(citas[j].hora) = 0 /\ Hour(citas[j].hora) \notin {13, 14})

\* a move to a lunch hour inside the dentist's window, free of every other objection, was
\* refused for the lunch hour
C25_Witness ==
    /\ last.op \in {"reprogramar", "update", "save"}
    /\ last.err = "hora:almuerzo"
    /\ last.status \in {400, 500}

-----------------------------------------------------------------------------
(* Agenda queries: slots, CitaViewSet.disponibilidad and dia_metadata *)

\* time.strftime("%H:%M"): the zero-padded text, as the pair (HH, MM); the texts order
\* as the pairs do
fmtHhmm(t) == <<Hour(t), Minute(t)>>

\* the time of day a text "HH:MM" names, in minutes
Minutos(s) == s[1] * 60 + s[2]

\* "HH:MM" < "HH:MM" on str
TextoMenor(a, b) == a[1] < b[1] \/ (a[1] = b[1] /\ a[2] < b[2])

RECURSIVE sorted(_)
\* sorted(set(...)) of texts
sorted(S) ==
    IF S = {} THEN <<>>
    ELSE LET m == CHOOSE x \in S : \A y \in S \ {x} : TextoMenor(x, y)
         IN  <<m>> \o sorted(S \ {m})

Elementos(s) == {s[i] : i \in DOMAIN s}

RECURSIVE buildSlotsFromInterval(_, _)
\* "HH:MM" every hour from start (included) while the whole hour ends by `end`,
\* skipping the starts whose hour is 13 or 14
buildSlotsFromInterval(start, end) ==
    IF start + 60 <= end
    THEN (IF Hour(start) \notin {13, 14} THEN <<fmtHhmm(start)>> ELSE <<>>)
         \o buildSlotsFromInterval(start + 60, end)
    ELSE <<>>

\* the dentist's windows in force on the weekday of the date
HorariosVigentes(fecha, idOdontologo) ==
    {h \in horarios : /\ h.id_odontologo = idOdontologo
                      /\ h.vigente
                      /\ h.dia_semana = Weekday(fecha)}

slotsHorariosParaFecha(fecha, idOdontologo) ==
    sorted(UNION {Elementos(buildSlotsFromInterval(h.hora_inicio, h.hora_fin)) :
                    h \in {x \in HorariosVigentes(fecha, idOdontologo) :
                             x.hora_fin > x.hora_inicio}})

\* the motivo column of a block row: BloqueoGrupoSerializer writes the text it was sent,
\* "" by default, never NULL
Motivo(b) == ""

\* bloqueoDetalle without the annually recurring rows
bloqueoDetalle_sin_recurrentes(fecha, idOdontologo) ==
    LET rowsOdo == {b \in bloqueos : b.fecha = fecha /\ b.id_odontologo = idOdontologo}
        rowsGlobal == {b \in bloqueos : b.fecha = fecha /\ b.id_odontologo = NULL}
    IN  IF idOdontologo # NULL /\ rowsOdo # {}
        THEN [bloqueado |-> TRUE, motivo |-> Motivo(CHOOSE b \in rowsOdo : TRUE)]
        ELSE IF rowsGlobal # {}
        THEN [bloqueado |-> TRUE, motivo |-> Motivo(CHOOSE b \in rowsGlobal : TRUE)]
        ELSE [bloqueado |-> FALSE, motivo |-> "None"]

\* (bloqueado, motivo): the dentist's block first, then the global one
bloqueoDetalle(fecha, idOdontologo) ==
    LET qDia(b) == b.fecha = fecha
        qRec(b) == b.recurrente_anual /\ Month_Day(b.fecha) = Month_Day(fecha)
        rowsOdo == {b \in bloqueos : (qDia(b) \/ qRec(b)) /\ b.id_odontologo = idOdontologo}
        rowsGlobal == {b \in bloqueos : (qDia(b) \/ qRec(b)) /\ b.id_odontologo = NULL}
    IN  IF idOdontologo # NULL /\ rowsOdo # {}
        THEN [bloqueado |-> TRUE, motivo |-> Motivo(CHOOSE b \in rowsOdo : TRUE)]
        ELSE IF rowsGlobal # {}
        THEN [bloqueado |-> TRUE, motivo |-> Motivo(CHOOSE b \in rowsGlobal : TRUE)]
        ELSE [bloqueado |-> FALSE, motivo |-> "None"]

\* the "HH:MM" of the rows on the date with the given value of `campo`, the estados in
\* `fuera` excluded
HorasOcupadas(fecha, campo, valor, fuera) ==
    {fmtHhmm(citas[j].hora) :
        j \in {i \in Ids(citas) : /\ citas[i].fecha = fecha
                                  /\ citas[i][campo] = valor
                                  /\ citas[i].estado \notin fuera}}

\* disponibilidad that subtracts nothing from the base slots
disponibilidad_sin_restar(fecha, odontologoId, idConsultorioParam) ==
    IF fechaBloqueada(fecha, odontologoId)
    THEN [ocupadas |-> <<>>, disponibles |-> <<>>]
    ELSE [ocupadas |-> sorted(HorasOcupadas(fecha, "id_odontologo", odontologoId,
                                            {ESTADO_CANCELADA})),
          disponibles |-> slotsHorariosParaFecha(fecha, odontologoId)]

\* the body of GET /citas/disponibilidad/; idConsultorioParam is 0 when absent
disponibilidad(fecha, odontologoId, idConsultorioParam) ==
    IF fechaBloqueada(fecha, odontologoId)
    THEN [ocupadas |-> <<>>, disponibles |-> <<>>]
    ELSE LET baseSlots == slotsHorariosParaFecha(fecha, odontologoId)
             ocupadasOdo == HorasOcupadas(fecha, "id_odontologo", odontologoId,
                                          {ESTADO_CANCELADA})
             ocupadasCons == IF idConsultorioParam # 0
                             THEN HorasOcupadas(fecha, "id_consultorio",
                                                idConsultorioParam, {ESTADO_CANCELADA})
                             ELSE {}
             ocupadas == ocupadasOdo \cup ocupadasCons
             Libre(h) == h \notin ocupadas
         IN  [ocupadas |-> sorted(ocupadas),
              disponibles |-> SelectSeq(baseSlots, Libre)]

\* the body of GET /citas/dia-metadata/; idOdontologoParam is NULL when absent
dia_metadata(fecha, idOdontologoParam, idConsultorioParam) ==
    IF idOdontologoParam # NULL
    THEN LET baseSlots == slotsHorariosParaFecha(fecha, idOdontologoParam)
             fuera == {ESTADO_CANCELADA, ESTADO_MANTENIMIENTO}
             qs == {j \in Ids(citas) :
                        /\ citas[j].fecha = fecha
                        /\ citas[j].id_odontologo = idOdontologoParam
                        /\ citas[j].estado \notin fuera
                        /\ (idConsultorioParam # 0
                                => citas[j].id_consultorio = idConsultorioParam)}
             ocupadas == {fmtHhmm(citas[j].hora) : j \in qs}
         IN  [slots_totales |-> Len(baseSlots),
              ocupadas |-> sorted(ocupadas),
              bloqueado |-> bloqueoDetalle(fecha, idOdontologoParam).bloqueado]
    ELSE [slots_totales |-> 0, ocupadas |-> <<>>,
          bloqueado |-> bloqueoDetalle(fecha, NULL).bloqueado]

\* the windows a dentist may have been given for the first date's weekday: on the hour and
\* on the half hour, ending before and after lunch; one not in force; one on another weekday
VentanasAgenda ==
    {[id_odontologo |-> 1, dia_semana |-> Weekday(0),
      hora_inicio |-> i, hora_fin |-> f, vigente |-> TRUE] : i \in {540, 570}, f \in {660, 900}}
    \cup {[id_odontologo |-> 1, dia_semana |-> Weekday(0),
           hora_inicio |-> 540, hora_fin |-> 720, vigente |-> FALSE],
          [id_odontologo |-> 1, dia_semana |-> Weekday(1),
           hora_inicio |-> 540, hora_fin |-> 720, vigente |-> TRUE]}

MaxVentanas == 2       \* windows the odontologo_horario table may hold

\* no block, or one block: global or of a dentist, on the first date or a year after it,
\* recurring or not
BloqueosAgenda ==
    {{}} \cup {{[grupo |-> 1, id_odontologo |-> a, fecha |-> f, recurrente_anual |-> r]} :
                 a \in Alcances, f \in {0, 365}, r \in BOOLEAN}

InitAgenda ==
    /\ citas \in TablasDe(0) \cup TablasDe(1)
    /\ horarios \in {H \in SUBSET VentanasAgenda : Cardinality(H) <= MaxVentanas}
    /\ bloqueos \in BloqueosAgenda
    /\ consultorios = [k \in Consultorios |-> TRUE]
    /\ odontologos = [o \in Odontologos |-> TRUE]
    /\ lotes = {}
    /\ configuracion = ConfiguracionDefaults
    /\ now = 0
    /\ last = NoReq

\* slotsHorariosParaFecha(fecha, idOdontologo), as the agenda endpoints call it
SlotsHorariosParaFecha ==
    /\ last = NoReq
    /\ \E f \in Fechas, o \in Odontologos :
           last' = [Resp("slots", Sistema, 0, <<f, o>>, citas, 200, "", "")
                       EXCEPT !.disponibles = slotsHorariosParaFecha(f, o)]
    /\ UNCHANGED <<citas, horarios, bloqueos, consultorios, now, configuracion, odontologos, lotes>>

\* GET /citas/disponibilidad/?fecha=&id_odontologo=&id_consultorio=
Disponibilidad ==
    /\ last = NoReq
    /\ \E u \in Usuarios, f \in Fechas, o \in Alcances, k \in ConsultorioParam :
           last' = IF o = NULL
                   THEN Resp("disponibilidad", u, 0, <<f, o, k>>, citas,
                             400, "detail:parametros", "")
                   ELSE [Resp("disponibilidad", u, 0, <<f, o, k>>, citas, 200, "", "")
                            EXCEPT !.disponibles = disponibilidad(f, o, k).disponibles,
                                   !.ocupadas = disponibilidad(f, o, k).ocupadas]
    /\ UNCHANGED <<citas, horarios, bloqueos, consultorios, now, configuracion, odontologos, lotes>>

\* GET /citas/dia-metadata/?fecha=&id_odontologo=&id_consultorio=
DiaMetadata ==
    /\ last = NoReq
    /\ \E u \in Usuarios, f \in Fechas, o \in Alcances, k \in ConsultorioParam :
           last' = [Resp("dia_metadata", u, 0, <<f, o, k>>, citas, 200, "", "")
                       EXCEPT !.total = dia_metadata(f, o, k).slots_totales,
                              !.ocupadas = dia_metadata(f, o, k).ocupadas,
                              !.bloqueado = dia_metadata(f, o, k).bloqueado]
    /\ UNCHANGED <<citas, horarios, bloqueos, consultorios, now, configuracion, odontologos, lotes>>

NextAgenda == SlotsHorariosParaFecha \/ Disponibilidad \/ DiaMetadata

SpecAgenda == InitAgenda /\ [][NextAgenda]_vars

\* C26: on a date that is not blocked for the dentist, no slot of disponibilidad is the
\* start time of one of the dentist's non-cancelled rows of that date, every slot is a
\* whole hour lying inside one of the dentist's windows in force that weekday, and no slot
\* starts at hour 13 or 14
C26_DisponiblesLibresYEnVentana ==
    (last.op = "disponibilidad" /\ last.status = 200
     /\ ~fechaBloqueada(last.req[1], last.req[2]))
    => \A s \in Elementos(last.disponibles) :
          /\ ~\E j \in Ids(citas) :
                 /\ citas[j].id_odontologo = last.req[2]
                 /\ citas[j].fecha = last.req[1]
                 /\ citas[j].estado # ESTADO_CANCELADA
                 /\ fmtHhmm(citas[j].hora) = s
          /\ \E h \in HorariosVigentes(last.req[1], last.req[2]) :
                 h.hora_inicio <= Minutos(s) /\ Minutos(s) + 60 <= h.hora_fin
          /\ s[1] \notin {13, 14}

\* slots were answered for a dentist whose window starts at 09:00 and runs over lunch,
\* with a non-cancelled row of his at 09:00 that day
C26_Witness ==
    /\ last.op = "disponibilidad" /\ last.status = 200
    /\ ~fechaBloqueada(last.req[1], last.req[2])
    /\ last.disponibles # <<>>
    /\ \E h \in HorariosVigentes(last.req[1], last.req[2]) :
           h.hora_inicio = 540 /\ h.hora_fin = 900
    /\ \E j \in Ids(citas) :
           /\ citas[j].id_odontologo = last.req[2]
           /\ citas[j].fecha = last.req[1]
           /\ citas[j].estado \in {ESTADO_PENDIENTE, ESTADO_MANTENIMIENTO}
           /\ citas[j].hora = 540

\* the hours H such that H:00 - (H+1):00 lies inside a window in force for the dentist on
\* the weekday of the date, the hours 13 and 14 left out
HorasEnPunto(fecha, idOdontologo) ==
    {H \in 0..23 : /\ H \notin {13, 14}
                   /\ \E h \in HorariosVigentes(fecha, idOdontologo) :
                          h.hora_inicio <= H * 60 /\ H * 60 + 60 <= h.hora_fin}

\* C27: whatever the windows in force, also those that do not start on the hour, the base
\* slots are exactly the HH:00 starts whose whole hour fits in some window in force and
\* whose hour is neither 13 nor 14, without duplicates and in ascending order
C27_SlotsEnPunto ==
    last.op = "slots"
    => /\ Elementos(last.disponibles) = {<<H, 0>> : H \in HorasEnPunto(last.req[1], last.req[2])}
       /\ \A i, j \in DOMAIN last.disponibles :
              i < j => TextoMenor(last.disponibles[i], last.disponibles[j])

\* C28: when the date is covered by a global block or by a block of the queried dentist,
\* by its exact date or, for a recurring block, by its month and day, disponibilidad
\* answers an empty list of slots and dia-metadata answers bloqueado = true
C28_BloqueadoSinSlots ==
    (last.op \in {"disponibilidad", "dia_metadata"} /\ last.status = 200
     /\ \E b \in bloqueos :
            /\ b.id_odontologo \in {NULL, last.req[2]}
            /\ (b.fecha = last.req[1]
                \/ (b.recurrente_anual /\ Month_Day(b.fecha) = Month_Day(last.req[1]))))
    => /\ last.op = "disponibilidad" => last.disponibles = <<>>
       /\ last.op = "dia_metadata" => last.bloqueado

\* dia-metadata answered for a dentist who has a window that weekday, on a date that a
\* recurring block of another year covers
C28_Witness ==
    /\ last.op = "dia_metadata" /\ last.status = 200
    /\ last.req[2] # NULL
    /\ last.total > 0
    /\ last.bloqueado
    /\ \E b \in bloqueos :
           b.recurrente_anual /\ b.fecha # last.req[1] /\ b.id_odontologo = last.req[2]

-----------------------------------------------------------------------------
(* The order of the checks of Cita.clean *)

\* the hours of the day and 15:00, where no window has a whole hour left
HorasGuard == HorasDelDia \cup {900}

\* both dentists have their windows, or only the first one has
HorariosGuard ==
    {HorariosIniciales, {h \in HorariosIniciales : h.id_odontologo = 1}}

InitGuard ==
    /\ citas \in TablasDe(0) \cup TablasDe(1)
    /\ horarios \in HorariosGuard
    /\ bloqueos \in BloqueosIniciales
    /\ consultorios \in [Consultorios -> BOOLEAN]
    /\ odontologos = [o \in Odontologos |-> TRUE]
    /\ lotes = {}
    /\ configuracion = ConfiguracionDefaults
    /\ now = 0
    /\ last = NoReq

\* the row a save with these values would write: a new one (pk = 0) or row pk moved
Candidata(cs, pk, p, o, k, f, h) ==
    IF pk = 0 THEN NuevaCita(p, o, k, f, h, ESTADO_PENDIENTE)
    ELSE [cs[pk] EXCEPT !.id_paciente = p, !.id_odontologo = o, !.id_consultorio = k,
                        !.fecha = f, !.hora = h]

\* Cita.save() of a new row or of an existing row with new values
CitaSaveGuard ==
    /\ last = NoReq
    /\ \E pk \in {0} \cup Ids(citas), p \in Pacientes, o \in Odontologos,
          k \in Consultorios, f \in Fechas, h \in HorasGuard :
           LET r == Cita_save(citas, pk, Candidata(citas, pk, p, o, k, f, h))
           IN  /\ Responde("save", Sistema, pk, <<p, o, k, f, h, pk>>, r, "")
               /\ UNCHANGED <<horarios, bloqueos, consultorios, now, configuracion, odontologos, lotes>>

NextGuard == CitaSaveGuard

SpecGuard == InitGuard /\ [][NextGuard]_vars

\* the failure of the earliest violated check in the order: minute, room inactive,
\* schedule window, blocked date, dentist / room / patient conflict, lunch hour
PrimeraFalla(cs, c, pk) ==
    IF Minute(c.hora) # 0 THEN "hora:minuto"
    ELSE IF ~consultorios[c.id_consultorio] THEN "id_consultorio:inactivo"
    ELSE IF ~fitsAny(c) THEN "hora:horario"
    ELSE IF fechaBloqueada(c.fecha, c.id_odontologo) THEN "fecha:bloqueada"
    ELSE IF Ocupado(cs, c, pk, "id_odontologo") THEN "hora:odontologo"
    ELSE IF Ocupado(cs, c, pk, "id_consultorio") THEN "id_consultorio:ocupado"
    ELSE IF Ocupado(cs, c, pk, "id_paciente") THEN "id_paciente:ocupado"
    ELSE IF Hour(c.hora) \in {13, 14} THEN "hora:almuerzo"
    ELSE ""

\* the same order with the check the code makes second: the patient is the dentist
PrimeraFallaConPropio(cs, c, pk) ==
    IF Minute(c.hora) # 0 THEN "hora:minuto"
    ELSE IF UsuarioDePaciente(c.id_paciente) = UsuarioDeOdontologo(c.id_odontologo)
         THEN "id_odontologo:contigo_mismo"
    ELSE PrimeraFalla(cs, c, pk)

\* the candidate of the save that was answered, on the table the save met
CandidataDe(req) == Candidata(citas, req[6], req[1], req[2], req[3], req[4], req[5])

\* C29 as stated: a save that violates several checks fails with the failure of the
\* earliest violated one in the order minute, room inactive, schedule window, blocked
\* date, dentist, room, patient conflict, lunch hour, each under its own field
C29_PrimeraFallaEnOrden ==
    [][(last'.op = "save" /\ PrimeraFalla(citas, CandidataDe(last'.req), last'.req[6]) # "")
         => last'.err = PrimeraFalla(citas, CandidataDe(last'.req), last'.req[6])]_vars

\* C29 amended: the same with one more check, made second: a patient who is the dentist
\* himself fails under id_odontologo before the room is looked at
C29_PrimeraFallaEnOrdenConPropio ==
    [][(last'.op = "save"
        /\ PrimeraFallaConPropio(citas, CandidataDe(last'.req), last'.req[6]) # "")
         => last'.err = PrimeraFallaConPropio(citas, CandidataDe(last'.req), last'.req[6])]_vars

\* a save was refused for its inactive room while its dentist had no window and its date
\* was blocked
C29_Witness ==
    /\ last.op = "save" /\ last.status = 500
    /\ last.err = "id_consultorio:inactivo"
    /\ ~fitsAny(CandidataDe(last.req))
    /\ fechaBloqueada(last.req[4], last.req[2])

-----------------------------------------------------------------------------
(* Two writes of different rows handled at the same time *)

Vias == {"update", "reprogramar"}

\* 09:00, where the rows of the initial tables are, and 10:00, which is free for all
HorasConcurrentes == {540, 600}

\* what PATCH /citas/{j}/ (via "update") or PATCH /citas/{j}/reprogramar/ answers for a
\* move of row j to fecha f and hora h on the table as the request reads it, up to and
\* including its own full_clean and clean
SegundaEscritura(u, j, via, f, h) ==
    IF ~Visible(u, j) THEN R(404, "detail:no_encontrada", citas)
    ELSE IF via = "update"
    THEN perform_update(u, j, [campos |-> {"fecha", "hora"}, estado |-> "",
                               fecha |-> f, hora |-> h])
    ELSE reprogramar(u, j, f, h, 0)

\* PATCH /citas/{i}/reprogramar/ and a move of another row j to the same date and hour
\* handled at the same time: each validates on the table as it is, then the two UPDATEs
\* follow one another under the constraints of the table.  CitaSerializer.update maps the
\* IntegrityError of a unique constraint to its field; reprogramar catches nothing.
EscriturasConcurrentes ==
    /\ last = NoReq
    /\ \E u1 \in Usuarios, u2 \in Usuarios, i \in Ids(citas), j \in Ids(citas),
          via \in Vias, f \in Fechas, h \in HorasConcurrentes :
           LET r1 == IF Visible(u1, i) THEN reprogramar(u1, i, f, h, 0)
                     ELSE R(404, "detail:no_encontrada", citas)
               r2 == SegundaEscritura(u2, j, via, f, h)
               cs1 == IF r1.status = 200 THEN r1.cs ELSE citas
               t2 == [cs1 EXCEPT ![j] = r2.cs[j]]
               w2 == IF r2.status # 200 THEN R(r2.status, r2.err, cs1)
                     ELSE IF IntegrityError(t2) # ""
                     THEN IF via = "update"
                          THEN R(400, IntegrityField(IntegrityError(t2)), cs1)
                          ELSE R(500, IntegrityError(t2), cs1)
                     ELSE R(200, "", t2)
           IN  /\ i # j
               /\ (via = "update" /\ ~isPatientMode(u2))
                      => citas[j].reprogramaciones < MaxReprogramaciones
               /\ citas' = w2.cs
               /\ last' = [Resp("escrituras_concurrentes", u2, j, <<f, h, via, i>>,
                                citas, r1.status, r1.err, "")
                           EXCEPT !.status2 = w2.status, !.err2 = w2.err]
               /\ UNCHANGED <<horarios, bloqueos, consultorios, now, configuracion, odontologos, lotes>>

NextConcurrente == EscriturasConcurrentes

SpecConcurrente == InitBloqueo /\ [][NextConcurrente]_vars

\* the user who sent the request that was answered
UsuarioDe(resp) == CHOOSE u \in Usuarios : u.rol = resp.rol /\ u.pid = resp.pid

\* the unique constraint that refuses the second write after the first was stored
RechazoDe(resp, despues) ==
    IntegrityError([despues EXCEPT ![resp.id] =
        SegundaEscritura(UsuarioDe(resp), resp.id, resp.req[3],
                         resp.req[1], resp.req[2]).cs[resp.id]])

\* C30: a write of an appointment that passed its own checks and is then refused by a
\* unique constraint of the table is answered with the validation error of the field the
\* pre-check would have named: hora for the dentist, id_consultorio for the room,
\* id_paciente for the patient
C30_RechazoComoValidacion ==
    [][(/\ last'.op = "escrituras_concurrentes"
        /\ SegundaEscritura(UsuarioDe(last'), last'.id, last'.req[3],
                            last'.req[1], last'.req[2]).status = 200
        /\ RechazoDe(last', citas') \in {"uq_cita_odo_fecha_hora_activa",
                                         "uq_cita_consul_fecha_hora_activa",
                                         "uq_cita_paciente_fecha_hora_activa"})
        => /\ last'.status2 = 400
           /\ last'.err2 = IntegrityField(RechazoDe(last', citas'))]_vars

-----------------------------------------------------------------------------
(* Schedule windows: OdontologoHorarioViewSet and the horarios payload of a dentist *)

MaxHorarios == 3       \* rows the odontologo_horario table may hold

\* the windows requests send: 09:00-11:00, 10:00-12:00 and 11:00-12:00 on two weekdays
VentanasPedidas ==
    {[id_odontologo |-> o, dia_semana |-> d, hora_inicio |-> w[1], hora_fin |-> w[2],
      vigente |-> v] :
        o \in Odontologos, d \in {0, 1},
        w \in {<<540, 660>>, <<600, 720>>, <<660, 720>>}, v \in BOOLEAN}

\* the columns of uq_horario_exact_duplicate
ClaveHorario(h) == <<h.id_odontologo, h.dia_semana, h.hora_inicio, h.hora_fin>>

\* OdontologoHorario.clean for row h against the other rows hs
OdontologoHorario_clean(hs, h) ==
    IF \E x \in hs : /\ x.id_odontologo = h.id_odontologo
                     /\ x.dia_semana = h.dia_semana
                     /\ x.vigente
                     /\ x.hora_inicio < h.hora_fin
                     /\ x.hora_fin > h.hora_inicio
    THEN "solape" ELSE ""

\* POST /odontologo-horarios/: the unique validator of the serializer, then save (clean)
HorarioCreate ==
    /\ last = NoReq
    /\ Cardinality(horarios) < MaxHorarios
    /\ \E u \in Usuarios, h \in VentanasPedidas :
           LET err == IF \E x \in horarios : ClaveHorario(x) = ClaveHorario(h)
                      THEN "non_field_errors:unique"
                      ELSE OdontologoHorario_clean(horarios, h)
               st  == IF err = "" THEN 201 ELSE IF err = "solape" THEN 500 ELSE 400
           IN  /\ last' = Resp("horario_create", u, 0, <<h>>, citas, st, err, "")
               /\ horarios' = IF err = "" THEN horarios \cup {h} ELSE horarios
    /\ UNCHANGED <<citas, bloqueos, consultorios, now, configuracion, odontologos, lotes>>

\* PATCH /odontologo-horarios/{id}/ {vigente}: only the administrator passes
\* has_object_permission; save runs clean against the other rows
HorarioUpdate ==
    /\ last = NoReq
    /\ \E u \in Usuarios, h \in horarios, v \in BOOLEAN :
           LET nuevo == [h EXCEPT !.vigente = v]
               err == IF userRole(u) # ROL_SUPERADMIN THEN "detail:permiso"
                      ELSE OdontologoHorario_clean(horarios \ {h}, nuevo)
               st  == IF err = "" THEN 200 ELSE IF err = "solape" THEN 500 ELSE 403
           IN  /\ last' = Resp("horario_update", u, 0, <<h, v>>, citas, st, err, "")
               /\ horarios' = IF err = "" THEN (horarios \ {h}) \cup {nuevo} ELSE horarios
    /\ UNCHANGED <<citas, bloqueos, consultorios, now, configuracion, odontologos, lotes>>

\* _apply_horarios: every row of the dentist deleted, the rows of the payload that are
\* vigente inserted by bulk_create
apply_horarios_payload(o, payload) ==
    {h \in horarios : h.id_odontologo # o} \cup {h \in payload : h.vigente}

\* PATCH /odontologos/{o}/ with a list of windows as `horarios`
OdontologoUpdateHorarios ==
    /\ last = NoReq
    /\ \E u \in Usuarios, o \in Odontologos :
         \E payload \in SUBSET {h \in VentanasPedidas : h.id_odontologo = o} :
           LET ok == IsOwnerDentistOrAdmin(u, o)
           IN  /\ Cardinality(payload) <= 2
               /\ \A x, y \in payload : ClaveHorario(x) = ClaveHorario(y) => x = y
               /\ Cardinality(apply_horarios_payload(o, payload)) <= MaxHorarios
               /\ last' = Resp("odontologo_update", u, 0, <<o, payload>>, citas,
                               IF ok THEN 200 ELSE 403,
                               IF ok THEN "" ELSE "detail:permiso", "")
               /\ horarios' = IF ok THEN apply_horarios_payload(o, payload) ELSE horarios
    /\ UNCHANGED <<citas, bloqueos, consultorios, now, configuracion, odontologos, lotes>>

\* a clinic whose dentists have no windows yet and no appointments
InitHorario ==
    /\ citas = <<>>
    /\ horarios = {}
    /\ bloqueos = {}
    /\ consultorios = [k \in Consultorios |-> TRUE]
    /\ odontologos = [o \in Odontologos |-> TRUE]
    /\ lotes = {}
    /\ configuracion = ConfiguracionDefaults
    /\ now = 0
    /\ last = NoReq

NextHorario == HorarioCreate \/ HorarioUpdate \/ OdontologoUpdateHorarios \/ Entregar

SpecHorario == InitHorario /\ [][NextHorario]_vars

\* C31: in every reachable state no two windows in force of the same dentist and the
\* same weekday overlap, whether they were written one by one through the schedule
\* endpoint or replaced as a list through the dentist's payload
C31_SinSolape ==
    \A x, y \in horarios :
        (x # y /\ x.vigente /\ y.vigente
         /\ x.id_odontologo = y.id_odontologo /\ x.dia_semana = y.dia_semana)
        => ~(x.hora_inicio < y.hora_fin /\ x.hora_fin > y.hora_inicio)

-----------------------------------------------------------------------------
(* ConfiguracionView: PATCH and PUT of the policy configuration *)

CamposHoras == {"horas_confirmar_desde", "horas_confirmar_hasta",
                "horas_autoconfirmar", "min_horas_anticipacion"}

\* the hours requests send
HorasConfig == {2, 12, 24, 30}

\* request bodies: any of the four fields, each with any of the hours
CuerposConfig == UNION {[S -> HorasConfig] : S \in SUBSET CamposHoras}

\* data.get(name, default)
dict_get(data, name, default) == IF name \in DOMAIN data THEN data[name] ELSE default

\* the fields ConfiguracionSerializer.validate finds wrong; the values the body leaves
\* out are read off self.instance with getattr(..., None)
ConfiguracionSerializer_validate(instance, data) ==
    LET horas_desde == dict_get(data, "horas_confirmar_desde",
                                getattr(instance, "horas_confirmar_desde", NULL))
        horas_hasta == dict_get(data, "horas_confirmar_hasta",
                                getattr(instance, "horas_confirmar_hasta", NULL))
        horas_auto  == dict_get(data, "horas_autoconfirmar",
                                getattr(instance, "horas_autoconfirmar", NULL))
        min_anticipacion == dict_get(data, "min_horas_anticipacion",
                                     getattr(instance, "min_horas_anticipacion", NULL))
    IN  {f \in CamposHoras :
            \/ /\ f = "horas_confirmar_hasta"
               /\ horas_hasta # NULL /\ horas_desde # NULL /\ horas_hasta >= horas_desde
            \/ /\ f = "min_horas_anticipacion"
               /\ min_anticipacion # NULL /\ horas_desde # NULL
               /\ min_anticipacion >= horas_desde
            \/ /\ f = "horas_autoconfirmar"
               /\ horas_auto # NULL /\ horas_desde # NULL /\ horas_auto > horas_desde}

\* the fields Configuracion.clean finds wrong in row c
Configuracion_clean(c) ==
    {f \in CamposHoras :
        \/ f = "horas_confirmar_hasta" /\ c.horas_confirmar_hasta >= c.horas_confirmar_desde
        \/ f = "min_horas_anticipacion" /\ c.min_horas_anticipacion >= c.horas_confirmar_desde
        \/ f = "horas_autoconfirmar" /\ c.horas_autoconfirmar > c.horas_confirmar_desde}

\* setattr of every validated field
Mezcla(c, data) == [f \in DOMAIN c |-> IF f \in DOMAIN data THEN data[f] ELSE c[f]]

\* the outcome of an update of the configuration: status, error, and the row stored
RC(status, err, c) == [status |-> status, err |-> err, c |-> c]

\* ModelSerializer.update(instance, validated_data) and instance.save(): the field info
\* is read off instance._meta, which only a model instance has
ConfiguracionSerializer_save(instance, data) ==
    IF ~hasattr(instance, "horas_confirmar_desde")
    THEN RC(500, "AttributeError", configuracion)
    ELSE IF Configuracion_clean(Mezcla(instance, data)) # {}
    THEN RC(500, "ValidationError", configuracion)
    ELSE RC(200, "", Mezcla(instance, data))

\* ConfiguracionView.patch / put: roles 1 and 4, get_config, is_valid, save
configuracion_update(u, data) ==
    LET config == get_config
    IN  IF userRole(u) \notin {ROL_SUPERADMIN, ROL_ADMIN_CLIN}
        THEN RC(403, "detail:permiso", configuracion)
        ELSE IF ConfiguracionSerializer_validate(config, data) # {}
        THEN RC(400, "validate", configuracion)
        ELSE ConfiguracionSerializer_save(config, data)

\* PATCH /configuracion/ with some of the fields
ConfiguracionPatch ==
    /\ last = NoReq
    /\ \E u \in Usuarios, data \in CuerposConfig :
           LET r == configuracion_update(u, data)
           IN  /\ last' = Resp("configuracion_patch", u, 0, <<data>>, citas,
                               r.status, r.err, "")
               /\ configuracion' = r.c
    /\ UNCHANGED <<citas, horarios, bloqueos, consultorios, now, odontologos, lotes>>

\* PUT /configuracion/ with the four fields
ConfiguracionPut ==
    /\ last = NoReq
    /\ \E u \in Usuarios, data \in [CamposHoras -> HorasConfig] :
           LET r == configuracion_update(u, data)
           IN  /\ last' = Resp("configuracion_put", u, 0, <<data>>, citas,
                               r.status, r.err, "")
               /\ configuracion' = r.c
    /\ UNCHANGED <<citas, horarios, bloqueos, consultorios, now, odontologos, lotes>>

NextConfiguracion == ConfiguracionPatch \/ ConfiguracionPut \/ Entregar

SpecConfiguracion == InitHorario /\ [][NextConfiguracion]_vars

\* C32: after any sequence of full and partial updates the stored configuration has
\* horas_confirmar_hasta < horas_confirmar_desde, horas_autoconfirmar <=
\* horas_confirmar_desde and min_horas_anticipacion < horas_confirmar_desde, and an update
\* by an administrator that would break one of them is refused as a validation error
\* and leaves the stored configuration unchanged
C32_ConfiguracionCoherente ==
    [][last'.op \in {"configuracion_patch", "configuracion_put"}
        => /\ Configuracion_clean(configuracion') = {}
           /\ (last'.rol = ROL_SUPERADMIN
               /\ Configuracion_clean(Mezcla(configuracion, last'.req[1])) # {})
              => (last'.status = 400 /\ configuracion' = configuracion)]_vars

-----------------------------------------------------------------------------
(* Two bookings of one patient handled at the same time *)

\* two POST /citas/ of the same patient: each runs perform_create (its count of active
\* rows included) and full_clean on the table as it is, then the two INSERTs follow one
\* another under the constraints of the table
CreatePacienteConcurrente ==
    /\ last = NoReq
    /\ Len(citas) + 2 <= MaxCitas
    /\ \E u \in Usuarios, o1 \in Odontologos, o2 \in Odontologos,
          k1 \in Consultorios, k2 \in Consultorios,
          f1 \in Fechas, f2 \in Fechas, h \in Horas :
           LET p  == pacienteIdFromUser(u)
               r1 == perform_create(u, p, o1, k1, f1, h)
               r2 == perform_create(u, p, o2, k2, f2, h)
               cs1 == IF r1.status = 201 THEN r1.cs ELSE citas
               t2 == Append(cs1, r2.cs[Len(r2.cs)])
               w2 == IF r2.status # 201 THEN R(r2.status, r2.err, cs1)
                     ELSE IF IntegrityError(t2) # ""
                     THEN R(400, IntegrityField(IntegrityError(t2)), cs1)
                     ELSE R(201, "", t2)
           IN  /\ isPatientMode(u)
               /\ citas' = w2.cs
               /\ last' = [Resp("create_paciente_concurrente", u, 0,
                                <<o1, k1, f1, h, o2, k2, f2>>, citas, r1.status, r1.err, "")
                           EXCEPT !.status2 = w2.status, !.err2 = w2.err]
               /\ UNCHANGED <<horarios, bloqueos, consultorios, now, configuracion, odontologos, lotes>>

NextActivas == Create \/ CreatePacienteConcurrente \/ Tick

SpecActivas == Init /\ [][NextActivas]_vars

-----------------------------------------------------------------------------
(* A change of a dentist's schedule: its preview and its application *)

\* the windows a schedule form sends: the weekday of the first date or of the second,
\* 08:00-09:00, 09:00-09:30, 09:00-15:00 or 10:00-15:00, enabled or not
VentanasNuevas ==
    {[dia_semana |-> d, hora_inicio |-> w[1], hora_fin |-> w[2], vigente |-> v] :
        d \in {Weekday(f) : f \in Fechas},
        w \in {<<480, 540>>, <<540, 570>>, <<540, 900>>, <<600, 900>>},
        v \in BOOLEAN}

\* the "horarios" list of the request: up to two windows, in the order they were sent
NuevosHorarios ==
    {<<>>} \cup {<<a>> : a \in VentanasNuevas}
           \cup {<<a, b>> : a \in VentanasNuevas, b \in VentanasNuevas}

\* next((h for h in nuevosHorarios if ...), None): the position of the first enabled
\* window of the weekday in the list, 0 when there is none
PrimerHorario(nuevosHorarios, dia_semana) ==
    LET S == {i \in 1..Len(nuevosHorarios) :
                 /\ nuevosHorarios[i].dia_semana = dia_semana
                 /\ nuevosHorarios[i].vigente}
    IN  IF S = {} THEN 0 ELSE CHOOSE i \in S : \A k \in S : i <= k

\* previewCambioHorarioOdontologo on a list of windows: the future rows in pendiente or
\* confirmada of the dentist whose weekday has no enabled window in the list, or whose
\* start lies outside [hora_inicio, hora_fin] of the first one
previewCambioHorario(idOdontologo, nuevosHorarios, dtFrom) ==
    {j \in Ids(citas) :
        /\ citas[j].id_odontologo = idOdontologo
        /\ FuturaDesde(citas[j], dtFrom)
        /\ citas[j].estado \in {ESTADO_PENDIENTE, ESTADO_CONFIRMADA}
        /\ LET i == PrimerHorario(nuevosHorarios, Weekday(citas[j].fecha))
           IN  \/ i = 0
               \/ ~(nuevosHorarios[i].hora_inicio <= citas[j].hora
                    /\ citas[j].hora <= nuevosHorarios[i].hora_fin)}

\* POST /odontologos/{o}/preview-horario-change/ with a list of windows
PreviewHorarioChange ==
    /\ last = NoReq
    /\ \E u \in Usuarios, o \in Odontologos, nuevos_horarios \in NuevosHorarios :
           /\ Masivo("preview_horario_change", u, <<o, nuevos_horarios>>,
                     IF userRole(u) \notin {ROL_SUPERADMIN, ROL_ADMIN_CLIN}
                     THEN Hecho(403, "detail:permiso") ELSE Hecho(200, ""),
                     previewCambioHorario(o, nuevos_horarios, now), NULL)
           /\ UNCHANGED <<horarios, bloqueos, consultorios, now, configuracion, odontologos, lotes>>

\* a preview or an application of a schedule change: one request on a database of
\* pending appointments
NextCambioHorario ==
    \/ PreviewHorarioChange
    \/ OdontologoApplyHorarioChange

SpecCambioHorario == InitBloqueo /\ [][NextCambioHorario]_vars

\* the lists that hold each window of S once
ListasDe(S) ==
    {s \in [1..Cardinality(S) -> S] : \A a, b \in 1..Cardinality(S) : s[a] = s[b] => a = b}

\* the schedule the dentist has in force, as the form would send it, in any order
HorarioEnVigor(o) ==
    ListasDe({[dia_semana |-> h.dia_semana, hora_inicio |-> h.hora_inicio,
               hora_fin |-> h.hora_fin, vigente |-> h.vigente] :
                 h \in {x \in horarios : x.id_odontologo = o}})

\* the one-hour interval of row c lies inside an enabled window of its weekday in the list
CabeEn(c, nuevosHorarios) ==
    \E i \in 1..Len(nuevosHorarios) :
        /\ nuevosHorarios[i].dia_semana = Weekday(c.fecha)
        /\ nuevosHorarios[i].vigente
        /\ nuevosHorarios[i].hora_inicio <= c.hora
        /\ c.hora + 60 <= nuevosHorarios[i].hora_fin

\* C34: when apply-horario-change answers 200, every row whose estado it changed is one
\* that preview-horario-change lists for the schedule now in force of the dentist, and
\* every future row in pendiente or confirmada that still fits that schedule keeps its
\* estado
C34_SoloAfectadas ==
    [][(last'.op = "odontologo_apply_horario_change" /\ last'.status = 200)
       => \A j \in Ids(citas) :
            /\ citas'[j].estado # citas[j].estado
                 => \E s \in HorarioEnVigor(last'.req[1]) :
                        j \in previewCambioHorario(last'.req[1], s, now)
            /\ (Futura(citas[j])
                /\ citas[j].estado \in {ESTADO_PENDIENTE, ESTADO_CONFIRMADA}
                /\ fitsAny(citas[j]))
                 => citas'[j].estado = citas[j].estado]_vars

\* C35: the rows a preview of a schedule change lists are exactly the future rows in
\* pendiente or confirmada of the dentist whose interval [start, start + 1h) is not fully
\* inside an enabled window of their weekday in the new schedule; a row that starts at
\* the end of a window is among them
C35_PreviewIgualGuard ==
    [][(last'.op = "preview_horario_change" /\ last'.status = 200)
       => last'.items =
            {j \in Ids(citas) :
                /\ citas[j].id_odontologo = last'.req[1]
                /\ Futura(citas[j])
                /\ citas[j].estado \in {ESTADO_PENDIENTE, ESTADO_CONFIRMADA}
                /\ ~CabeEn(citas[j], last'.req[2])}]_vars

-----------------------------------------------------------------------------
(* Reschedules made by the clinic *)

\* C36: an update or a reprogramar sent by a user who is not acting as a patient leaves
\* the reprogramaciones counter of the row it moved to another fecha or hora no higher
\* than it was
C36_StaffNoCuenta ==
    [][(last'.op \in {"update", "reprogramar"} /\ last'.rol # ROL_PACIENTE)
       => \A j \in Ids(citas) :
              (citas'[j].fecha # citas[j].fecha \/ citas'[j].hora # citas[j].hora)
              => citas'[j].reprogramaciones <= citas[j].reprogramaciones]_vars

-----------------------------------------------------------------------------
(* Blocks that recur every year: the (month, day) range of the bulk services *)

\* calendar dates <<year, month, day>>
EsBisiesto(y) == y % 4 = 0 /\ (y % 100 # 0 \/ y % 400 = 0)

DiasDelMes(y, m) ==
    IF m = 2 THEN (IF EsBisiesto(y) THEN 29 ELSE 28)
    ELSE IF m \in {4, 6, 9, 11} THEN 30 ELSE 31

\* a <= b on dates, and on (month, day) pairs
FechaLeq(a, b) ==
    \/ a[1] < b[1]
    \/ a[1] = b[1] /\ a[2] < b[2]
    \/ a[1] = b[1] /\ a[2] = b[2] /\ a[3] <= b[3]

MmddLeq(a, b) == a[1] < b[1] \/ (a[1] = b[1] /\ a[2] <= b[2])

\* cur + timedelta(days=1)
DiaSiguiente(cur) ==
    IF cur[3] < DiasDelMes(cur[1], cur[2]) THEN <<cur[1], cur[2], cur[3] + 1>>
    ELSE IF cur[2] < 12 THEN <<cur[1], cur[2] + 1, 1>>
    ELSE <<cur[1] + 1, 1, 1>>

RECURSIVE MmddHasta(_, _)
\* while cur <= e: days.append((cur.month, cur.day)); cur += timedelta(days=1)
\* (the days of one month are appended together, then the loop goes on from the next)
MmddHasta(cur, e) ==
    IF ~FechaLeq(cur, e) THEN <<>>
    ELSE LET fin == IF cur[1] = e[1] /\ cur[2] = e[2] THEN e[3]
                    ELSE DiasDelMes(cur[1], cur[2])
         IN  [i \in 1..(fin - cur[3] + 1) |-> <<cur[2], cur[3] + i - 1>>]
             \o MmddHasta(DiaSiguiente(<<cur[1], cur[2], fin>>), e)

\* _days_in_mmdd_range: the (month, day) of start and of end placed in the year 2000,
\* and the days between them, through 31 December and 1 January when start is later
days_in_mmdd_range(start, end) ==
    LET base_year == 2000
        s == <<base_year, start[2], start[3]>>
        e == <<base_year, end[2], end[3]>>
    IN  IF FechaLeq(s, e) THEN MmddHasta(s, e)
        ELSE MmddHasta(s, <<base_year, 12, 31>>) \o MmddHasta(<<base_year, 1, 1>>, e)

\* _q_rango_fechas: a row of date fecha is in the range
q_rango_fechas(fi, ff, recurrente_anual, fecha) ==
    IF ~recurrente_anual THEN FechaLeq(fi, fecha) /\ FechaLeq(fecha, ff)
    ELSE LET pairs == days_in_mmdd_range(fi, ff)
         IN  \E i \in DOMAIN pairs : pairs[i] = <<fecha[2], fecha[3]>>

\* the years of the calendar in play and its dates
Anios == 2027..2029

Calendario ==
    UNION {{<<y, m, d>> : d \in 1..DiasDelMes(y, m)} : y \in Anios, m \in 1..12}

\* BloqueoGrupoSerializer.create: one row for each day from fi to ff, all of the group
FilasDelGrupo(fi, ff, id_od, rec) ==
    {[id_odontologo |-> id_od, fecha |-> d, recurrente_anual |-> rec] :
        d \in {x \in Calendario : FechaLeq(fi, x) /\ FechaLeq(x, ff)}}

\* check 4 of Cita.clean against the rows of one group
BloqueadaPor(filas, fecha, id_odontologo) ==
    \E b \in filas :
        /\ (b.id_odontologo = NULL \/ b.id_odontologo = id_odontologo)
        /\ (b.fecha = fecha
            \/ (b.recurrente_anual /\ b.fecha[2] = fecha[2] /\ b.fecha[3] = fecha[3]))

\* _qs_base_bloqueo with the parameters _get_group_params takes from the group: the
\* test it makes on the date and the dentist of a future row that is not cancelled
qs_base_bloqueo_rango(fi, ff, id_odontologo, recurrente_anual, fecha, odo) ==
    /\ q_rango_fechas(fi, ff, recurrente_anual, fecha)
    /\ (id_odontologo # NULL => odo = id_odontologo)

\* the ends of the ranges that are blocked, and the dates of the appointments
FechasRango ==
    {<<2027, 2, 28>>, <<2027, 3, 1>>, <<2027, 12, 28>>,
     <<2028, 1, 3>>, <<2028, 2, 29>>, <<2028, 3, 1>>}

FechasCita ==
    {<<2028, 1, 1>>, <<2028, 2, 28>>, <<2028, 2, 29>>,
     <<2028, 6, 1>>, <<2028, 12, 30>>, <<2029, 3, 1>>}

\* _days_in_mmdd_range(start, end) on any two dates
DiasEnRango ==
    /\ last = NoReq
    /\ \E start \in FechasRango, end \in FechasRango :
           last' = [Resp("days_in_mmdd_range", Sistema, 0, <<start, end>>, citas, 200, "", "")
                       EXCEPT !.disponibles = days_in_mmdd_range(start, end)]
    /\ UNCHANGED <<citas, horarios, bloqueos, consultorios, now, configuracion, odontologos, lotes>>

\* a recurrent group fi..ff of dentist id_od (or of the clinic), and a future row that is
\* not cancelled, of dentist odo on date fecha: whether the bulk service selects the row
\* (items) and whether check 4 finds its date blocked by the group (bloqueado)
SeleccionRecurrente ==
    /\ last = NoReq
    /\ \E fi \in FechasRango, ff \in FechasRango, id_od \in Odontologos \cup {NULL},
          fecha \in FechasCita, odo \in Odontologos :
           /\ FechaLeq(fi, ff)
           /\ last' = [Resp("seleccion_recurrente", Sistema, 0,
                            <<fi, ff, id_od, fecha, odo>>, citas, 200, "", "")
                          EXCEPT !.items = IF qs_base_bloqueo_rango(fi, ff, id_od, TRUE, fecha, odo)
                                           THEN {1} ELSE {},
                                 !.bloqueado = BloqueadaPor(FilasDelGrupo(fi, ff, id_od, TRUE),
                                                            fecha, odo)]
    /\ UNCHANGED <<citas, horarios, bloqueos, consultorios, now, configuracion, odontologos, lotes>>

NextRango == DiasEnRango \/ SeleccionRecurrente

SpecRango == InitHorario /\ [][NextRango]_vars

\* the (month, day) pairs of the year 2000
ParesMmdd == {p \in (1..12) \X (1..31) : p[2] <= DiasDelMes(2000, p[1])}

\* C37: the list of a range holds each calendar day from the start's (month, day) to the
\* end's exactly once, in calendar order, running through 31 December into 1 January
\* when the start is later in the year than the end; and the bulk service selects a row
\* for a recurrent group exactly when check 4 finds the row's date blocked by the group
C37_RangoRecurrente ==
    [][/\ last'.op = "days_in_mmdd_range" =>
            LET s == <<last'.req[1][2], last'.req[1][3]>>
                e == <<last'.req[2][2], last'.req[2][3]>>
                l == last'.disponibles
            IN  /\ \A a, b \in DOMAIN l : l[a] = l[b] => a = b
                /\ {l[i] : i \in DOMAIN l} =
                      IF MmddLeq(s, e)
                      THEN {p \in ParesMmdd : MmddLeq(s, p) /\ MmddLeq(p, e)}
                      ELSE {p \in ParesMmdd : MmddLeq(s, p) \/ MmddLeq(p, e)}
                /\ l[1] = s /\ l[Len(l)] = e
                /\ \A a \in DOMAIN l : a < Len(l) =>
                       \/ MmddLeq(l[a], l[a + 1])
                       \/ (l[a] = <<12, 31>> /\ l[a + 1] = <<1, 1>>)
       /\ last'.op = "seleccion_recurrente" => (last'.items # {} <=> last'.bloqueado)]_vars

-----------------------------------------------------------------------------
(* The slot of an appointment in maintenance *)

\* rows c and d start at the same date and hour and share the dentist, the room or the
\* patient
ChocaCon(c, d) ==
    /\ c.fecha = d.fecha /\ c.hora = d.hora
    /\ (c.id_odontologo = d.id_odontologo
        \/ c.id_consultorio = d.id_consultorio
        \/ c.id_paciente = d.id_paciente)

\* row k of the next table is not cancelled and was not on its keys before: it is new,
\* it was cancelled, or it was moved
Entra(k) ==
    /\ citas'[k].estado # ESTADO_CANCELADA
    /\ \/ k \notin Ids(citas)
       \/ citas[k].estado = ESTADO_CANCELADA
       \/ <<citas[k].fecha, citas[k].hora, citas[k].id_odontologo,
            citas[k].id_consultorio, citas[k].id_paciente>>
          # <<citas'[k].fecha, citas'[k].hora, citas'[k].id_odontologo,
              citas'[k].id_consultorio, citas'[k].id_paciente>>

OpsReactivar ==
    {"consultorio_apply_reactivate", "odontologo_apply_reactivate",
     "bloqueo_apply_reactivar_detail", "bloqueo_destroy"}

\* C38: no write places a row that is not cancelled on the dentist, room or patient and
\* the date and hour of another row that is in mantenimiento; a bulk reactivation is
\* never answered with the failure of a uniqueness constraint, and the table it leaves
\* has no two rows that are not cancelled on the same key
C38_MantenimientoOcupa ==
    [][/\ \A k \in Ids(citas'), j \in Ids(citas) :
            (Entra(k) /\ j # k /\ citas[j].estado = ESTADO_MANTENIMIENTO)
            => ~ChocaCon(citas'[k], citas[j])
       /\ last'.op \in OpsReactivar
            => /\ last'.status \in {200, 204, 403}
               /\ IntegrityError(citas') = ""]_vars

\* a row was to be saved on the keys of a row in mantenimiento, and of no other row
\* that is not cancelled, and the save was refused
C38_Witness ==
    /\ last.op = "save"
    /\ last.status = 500
    /\ \E j \in Ids(citas) :
          /\ citas[j].estado = ESTADO_MANTENIMIENTO
          /\ ChocaCon(citas[j], Pedida(last.req))
    /\ \A i \in Ids(citas) :
          (citas[i].estado # ESTADO_CANCELADA /\ ChocaCon(citas[i], Pedida(last.req)))
          => citas[i].estado = ESTADO_MANTENIMIENTO
    /\ last.err \in {"hora:odontologo", "id_consultorio:ocupado", "id_paciente:ocupado"}

-----------------------------------------------------------------------------
(* A confirmation and another write to the same row, at the same time *)

ViasCarrera == {"cancelar", "apply_horario_change"}

\* what the other request answers on the table both requests read: a cancellation of
\* row id, or the maintenance of all the future rows of its dentist
OtraEscritura(u, id, via) ==
    IF via = "cancelar"
    THEN IF Visible(u, id) THEN cancelar(u, id) ELSE R(404, "detail:no_encontrada", citas)
    ELSE IF userRole(u) \notin {ROL_SUPERADMIN, ROL_ADMIN_CLIN}
         THEN Hecho(403, "detail:permiso")
         ELSE applyMantenimientoOdontologo(citas[id].id_odontologo, userRole(u), now)

\* PATCH /citas/{id}/confirmar/ by u1 while u2 cancels the row or places the rows of its
\* dentist in maintenance: confirmar reads the row and makes its checks, the other
\* request commits, and then confirmar saves estado = confirmada (update_fields=["estado"])
\* on the row as it is by then.  The response records in estado what the row held when
\* the other request had committed, in status2 and err2 the answer to the other request.
ConfirmarConcurrente ==
    /\ last = NoReq
    /\ \E u1 \in Usuarios, u2 \in Usuarios, id \in Ids(citas), via \in ViasCarrera :
           LET r1  == IF Visible(u1, id) THEN confirmar(u1, id)
                      ELSE R(404, "detail:no_encontrada", citas)
               r2  == OtraEscritura(u2, id, via)
               cs2 == r2.cs
               w1  == IF r1.status # 200 THEN R(r1.status, r1.err, cs2)
                      ELSE Cita_save(cs2, id, [cs2[id] EXCEPT !.estado = ESTADO_CONFIRMADA])
           IN  /\ citas' = w1.cs
               /\ last' = [Resp("confirmar_concurrente", u1, id, <<via, u2.id_usuario>>,
                                citas, w1.status, w1.err, cs2[id].estado)
                              EXCEPT !.status2 = r2.status, !.err2 = r2.err]
    /\ UNCHANGED <<horarios, bloqueos, consultorios, now, configuracion, odontologos, lotes>>

NextConfirmarCarrera == ConfirmarConcurrente

\* the two requests on a database of pending appointments
SpecConfirmarCarrera == InitBloqueo /\ [][NextConfirmarCarrera]_vars

\* C39: when a cancellation or a bulk maintenance committed cancelada or mantenimiento on
\* a row after confirmar had read it as pendiente and before confirmar wrote, the row
\* does not end in confirmada
C39_ConfirmarNoPisa ==
    [][(/\ last'.op = "confirmar_concurrente"
        /\ last'.previa[1].estado = ESTADO_PENDIENTE
        /\ last'.estado \in {ESTADO_CANCELADA, ESTADO_MANTENIMIENTO})
       => citas'[last'.id].estado # ESTADO_CONFIRMADA]_vars

-----------------------------------------------------------------------------
(* A new appointment and the sweep that cancels what was not confirmed *)

\* the configurations Configuracion.clean accepts, over the hours in play
ConfiguracionesValidas ==
    {c \in {Mezcla(ConfiguracionDefaults, d) : d \in [CamposHoras -> HorasConfig]} :
        Configuracion_clean(c) = {}}

\* at most one row, the dentists at work, no block, any valid configuration
InitValida ==
    /\ citas \in TablasDe(0) \cup TablasDe(1)
    /\ horarios = HorariosIniciales
    /\ bloqueos = {}
    /\ consultorios = [k \in Consultorios |-> TRUE]
    /\ odontologos = [o \in Odontologos |-> TRUE]
    /\ lotes = {}
    /\ configuracion \in ConfiguracionesValidas
    /\ now = 0
    /\ last = NoReq

\* one booking, or one run of the sweep
NextAutocancelar == Create \/ Autocancelar

SpecAutocancelar == InitValida /\ [][NextAutocancelar]_vars

====
